---- MODULE Spec2Model ----
(***************************************************************************)
(* ricela: the adaptive telemetry controller (cmd/ricela main.go, the      *)
(* version with counterStrs and the car-server poller) and the ChargePoint *)
(* client it drives.                                                       *)
(*                                                                         *)
(* Go strings are TLA+ strings; a float64 is modelled by an integer (the   *)
(* inputs are drawn from integers); a map[string]interface{} is the        *)
(* sequence of its entries in the order Go's range statement visits them   *)
(* (any order of distinct keys is a possible input).                       *)
(***************************************************************************)
EXTENDS Integers, Sequences, FiniteSets, TLC

VARIABLES
    gauges,      \* r.mu.gauges: metric name -> value of its gauge
    registered,  \* metric name -> number of promauto.NewGauge calls for it
    calls,       \* history: the setCounter calls recorded, in order
    input,       \* SpecNorm: the telemetry value handed to processCounter
    prefix,      \* SpecNorm: the key handed to processCounter
    count,       \* SpecNorm: the count processCounter returned
    output,      \* SpecPoll, SpecGeo: the result of the function applied
    gauges0,     \* the registry before the call in progress
    phase,       \* which step of the specification's scenario was taken
    mu,          \* r.mu: the task holding the mutex, 0 when it is free
    rpc,         \* SpecReg: each caller's position in setCounter
    args,        \* SpecReg: each caller's arguments [key, v]
    found,       \* SpecReg: each caller's ok of the map lookup
    everSet,     \* history: the keys whose setCounter call has returned
    vehicles,    \* the vehicles r.client.Vehicles() returned, one loop each
    pc,          \* each vehicle loop's position in monitorVehicle
    data,        \* monitorVehicle's data: <<>> for nil, <<d>> for &d
    prevData,    \* monitorVehicle's prevData, likewise
    delay,       \* the duration of the timer the loop waits for
    result,      \* what monitorVehicle returned: "nil" or the failed call
    charging,    \* r.mu.charging
    cancelled,   \* ctx.Done() is closed
    firstErr,    \* the error the errgroup keeps: its first
    listener,    \* the metrics listener: "serving", "failed" or "closed"
    env,         \* the run's surroundings: the vehicles of the account, the
                 \* bodies its API answers with, the polls followed per loop
    discovery,   \* the task calling r.client.Vehicles(): "pending", "done", "failed"
    runResult,   \* what run() returned; "running" before it returns
    stats,       \* the ChargePoint statistics loop: its position, its polls,
                 \* the stopCharging failures it logged, what it returned
    pollers,     \* the background pollers (system metrics, car server): each
                 \* one's position, the failure it logged, what it returned
    can,         \* the CAN exporter: the position of its loop, processCan's
                 \* logging and logged, the log file, the records appended
    shutdown,    \* the task that shuts the listener down: "waiting", "done",
                 \* or "fatal" once it ended the process with log.Fatal
    polls,       \* history: the number of snapshots each loop fetched
    portHist,    \* history: ChargePortDoorOpen of each snapshot, in order
    qualCount,   \* history: the snapshots fetched with Complete and pilot > 1
    statusCount, \* history: the UserStatus queries made for each vehicle
    stops,       \* history: the StopSession calls of the poll in progress
    startLog,    \* history: the startNearbyCharging calls [poll, at]
    sessions,    \* history: the StartSession calls [poll, DeviceID]
    errs         \* history: the error of the last call of each loop that
                 \* failed since its last snapshot; "nil" when none did

normVars == <<input, prefix, count, output, phase>>
regVars == <<mu, rpc, args, found, everSet>>
loopVars == <<vehicles, pc, data, prevData, delay, result, charging,
              cancelled, firstErr, listener, env, discovery, runResult,
              stats, pollers, can, shutdown>>
histVars == <<polls, portHist, qualCount, statusCount, stops, startLog, sessions,
              errs>>
vars == <<gauges, registered, calls, gauges0, normVars, regVars, loopVars, histVars>>

----------------------------------------------------------------------------
(* Bounds *)

\* Most entries of one map of a telemetry input.
MaxEntries == 2

----------------------------------------------------------------------------
(* Telemetry values: interface{} as decoded by encoding/json *)

Num(n)   == [t |-> "num",  n |-> n, b |-> FALSE, s |-> "", es |-> <<>>]
Bool(b)  == [t |-> "bool", n |-> 0, b |-> b,     s |-> "", es |-> <<>>]
Str(s)   == [t |-> "str",  n |-> 0, b |-> FALSE, s |-> s,  es |-> <<>>]
Nil      == [t |-> "nil",  n |-> 0, b |-> FALSE, s |-> "", es |-> <<>>]
\* a JSON array ([]interface{}): a type processCounter has no case for
List     == [t |-> "list", n |-> 0, b |-> FALSE, s |-> "", es |-> <<>>]
\* a map, as the sequence of its entries [k, v] in range order
Map(es)  == [t |-> "map",  n |-> 0, b |-> FALSE, s |-> "", es |-> es]
Entry(k, v) == [k |-> k, v |-> v]

----------------------------------------------------------------------------
(* strconv.ParseFloat, on the decimal integer literals [+-]?[0-9]+ ; the   *)
(* other syntax it accepts (fractions, exponents, hex, inf, nan) is not in *)
(* the alphabet of the inputs.                                             *)

Digits == ("0" :> 0) @@ ("1" :> 1) @@ ("2" :> 2) @@ ("3" :> 3) @@ ("4" :> 4) @@
          ("5" :> 5) @@ ("6" :> 6) @@ ("7" :> 7) @@ ("8" :> 8) @@ ("9" :> 9)

CharAt(s, i) == SubSeq(s, i, i)

RECURSIVE ParseDigits(_, _, _)
\* the digits of s from position i on, accumulated into acc; ok = all digits
ParseDigits(s, i, acc) ==
    IF i > Len(s) THEN [ok |-> TRUE, f |-> acc]
    ELSE IF CharAt(s, i) \in DOMAIN Digits
         THEN ParseDigits(s, i + 1, 10 * acc + Digits[CharAt(s, i)])
         ELSE [ok |-> FALSE, f |-> 0]

ParseFloat(s) ==
    LET signed == Len(s) > 0 /\ CharAt(s, 1) \in {"+", "-"}
        start  == IF signed THEN 2 ELSE 1
        body   == ParseDigits(s, start, 0)
    IN  IF start > Len(s) \/ ~body.ok
        THEN [ok |-> FALSE, f |-> 0]
        ELSE [ok |-> TRUE,
              f  |-> IF signed /\ CharAt(s, 1) = "-" THEN 0 - body.f ELSE body.f]

counterStrs ==
    ("--" :> -1) @@ ("NONE" :> -1) @@ ("PRESENT" :> 1) @@ ("ENGAGED" :> 1) @@
    ("DISENGAGED" :> 0) @@ ("LATCHED" :> 1) @@ ("NOMINAL" :> 1) @@
    ("FAULT" :> 0) @@ ("ERROR" :> 0) @@ ("DRIVE" :> 2) @@ ("PARKED" :> 1) @@
    ("REVERSE" :> 3) @@ ("NEUTRAL" :> 4) @@ ("On" :> 1) @@ ("Off" :> 0) @@
    ("Stopped" :> 0) @@ ("IDLE" :> 0) @@ ("ACTIVE" :> 1) @@ ("on" :> 1) @@
    ("off" :> 0) @@ ("yes" :> 1) @@ ("no" :> 0) @@ ("" :> -1)

----------------------------------------------------------------------------
(* The metric registry: r.mu.gauges and the Prometheus default registry    *)

\* A registry state: the gauges map, the registrations made, the call log.
Registry(g, r, c) == [gauges |-> g, registered |-> r, calls |-> c]

Registrations(r, key) == IF key \in DOMAIN r THEN r[key] ELSE 0

\* g, ok := r.mu.gauges[key]
GaugeLookup(reg, key) == key \in DOMAIN reg.gauges

\* the creation storing the new gauge in a fresh map
NewGaugeFreshMap(reg, key) ==
    [reg EXCEPT !.gauges = (key :> 0),
                !.registered = (key :> Registrations(reg.registered, key) + 1)
                               @@ reg.registered]

\* g = promauto.NewGauge(...); r.mu.gauges[key] = g  (a new gauge reads 0)
NewGauge(reg, key) ==
    [reg EXCEPT !.gauges = (key :> 0) @@ reg.gauges,
                !.registered = (key :> Registrations(reg.registered, key) + 1)
                               @@ reg.registered]

\* g.Add(v) in place of g.Set(v)
GaugeAdd(reg, key, v) == [reg EXCEPT !.gauges[key] = @ + v]

\* g.Set(v)
GaugeSet(reg, key, v) == [reg EXCEPT !.gauges[key] = v]

\* setCounter's critical section (between r.mu.Lock and the deferred Unlock)
setCounter(reg, key, v) ==
    LET logged == [reg EXCEPT !.calls = Append(reg.calls, [key |-> key, v |-> v])]
        g      == IF GaugeLookup(logged, key) THEN logged ELSE NewGauge(logged, key)
    IN  GaugeSet(g, key, v)

----------------------------------------------------------------------------
(* The telemetry snapshot normalizer                                       *)

\* a result of processCounter: the registry after it and the returned count
Counted(reg, n) == [reg |-> reg, n |-> n]

\* a string resolved through the symbolic table alone
processStringTableOnly(reg, key, s) ==
    IF s \in DOMAIN counterStrs
    THEN Counted(setCounter(reg, key, counterStrs[s]), 1)
    ELSE Counted(reg, 0)

\* case string: ParseFloat first, then the symbolic table, else nothing
processString(reg, key, s) ==
    IF ParseFloat(s).ok THEN Counted(setCounter(reg, key, ParseFloat(s).f), 1)
    ELSE IF s \in DOMAIN counterStrs
         THEN Counted(setCounter(reg, key, counterStrs[s]), 1)
         ELSE Counted(reg, 0)

RECURSIVE processCounter(_, _, _)
RECURSIVE rangeMap(_, _, _, _)

\* the range loop with "count =" in place of "count +="
rangeMapLastCount(reg, key, es, n) ==
    IF es = <<>> THEN Counted(reg, n)
    ELSE LET one == processCounter(reg, key \o ":" \o Head(es).k, Head(es).v)
         IN  rangeMap(one.reg, key, Tail(es), one.n)

\* for k, v := range v { key := key + ":" + k; count += r.processCounter(key, v) }
rangeMap(reg, key, es, n) ==
    IF es = <<>> THEN Counted(reg, n)
    ELSE LET one == processCounter(reg, key \o ":" \o Head(es).k, Head(es).v)
         IN  rangeMap(one.reg, key, Tail(es), n + one.n)

processCounter(reg, key, v) ==
    CASE v.t = "map"  -> rangeMap(reg, key, v.es, 0)
      [] v.t = "num"  -> Counted(setCounter(reg, key, v.n), 1)
      [] v.t = "bool" -> Counted(setCounter(reg, key, IF v.b THEN 1 ELSE 0), 1)
      [] v.t = "str"  -> processString(reg, key, v.s)
      [] v.t = "nil"  -> Counted(setCounter(reg, key, 0), 1)
      [] OTHER        -> Counted(reg, 0)

----------------------------------------------------------------------------
(* VehicleData: the fields of the decoded vehicle_data response the loop   *)
(* reads. A latitude or longitude is a whole number of microdegrees.       *)

StateCharging == "Charging"
StateComplete == "Complete"

VehicleData(locked, shift, portOpen, chargingState, pilot, climateOn, lat, lon) ==
    [VehicleState |-> [Locked |-> locked],
     DriveState   |-> [ShiftState |-> shift, Latitude |-> lat, Longitude |-> lon],
     ChargeState  |-> [ChargePortDoorOpen |-> portOpen,
                       ChargingState |-> chargingState,
                       ChargerPilotCurrent |-> pilot],
     ClimateState |-> [IsClimateOn |-> climateOn]]

----------------------------------------------------------------------------
(* The adaptive poll scheduler. The three delays are the flags' defaults,  *)
(* in seconds.                                                             *)

standbyPollTime == 60
drivePollTime == 15
activePollTime == 5

\* the two rules tested in the opposite order
pollTimeDriveFirst(d) ==
    IF \/ d.DriveState.ShiftState = Str("D")
       \/ d.DriveState.ShiftState = Str("R")
       \/ d.DriveState.ShiftState = Str("N")
       \/ d.ClimateState.IsClimateOn
    THEN drivePollTime
    ELSE IF /\ ~d.VehicleState.Locked
            /\ \/ d.DriveState.ShiftState = Nil
               \/ d.DriveState.ShiftState = Str("P")
               \/ d.DriveState.ShiftState = Str("R")
            /\ ~d.ChargeState.ChargePortDoorOpen
         THEN activePollTime
         ELSE standbyPollTime

pollTime(d) ==
    IF /\ ~d.VehicleState.Locked
       /\ \/ d.DriveState.ShiftState = Nil
          \/ d.DriveState.ShiftState = Str("P")
          \/ d.DriveState.ShiftState = Str("R")
       /\ ~d.ChargeState.ChargePortDoorOpen
    THEN activePollTime
    ELSE IF \/ d.DriveState.ShiftState = Str("D")
            \/ d.DriveState.ShiftState = Str("R")
            \/ d.DriveState.ShiftState = Str("N")
            \/ d.ClimateState.IsClimateOn
         THEN drivePollTime
         ELSE standbyPollTime

----------------------------------------------------------------------------
(* The charger registry and the geofence match. DistanceInMeters is the    *)
(* great-circle distance on a sphere of radius 6 371 000 m; within a few   *)
(* hundred metres of a charger it is computed here on the tangent plane,   *)
(* in whole centimetres per axis, and compared by its square.              *)

\* centimetres per 1000 microdegrees of latitude: 6 371 000 m * pi / 180
CmPerMilliDegreeLat == 11119
\* centimetres per 1000 microdegrees of longitude at the charger's latitude
CmPerMilliDegreeLng == 7494
\* startNearbyCharging's threshold, in metres
GeofenceMeters == 20

LatLng(lat, lng) == [Lat |-> lat, Lng |-> lng]

ChargePointCharger(id, latlng) == [DeviceID |-> id, LatLng |-> latlng]

knownChargers == <<ChargePointCharger(1947511, LatLng(47630007, -122133969))>>

Abs(x) == IF x < 0 THEN 0 - x ELSE x

\* the square, in cm^2, of c.DistanceInMeters(a)
DistanceSquared(c, a) ==
    LET north == (Abs(a.Lat - c.LatLng.Lat) * CmPerMilliDegreeLat) \div 1000
        east  == (Abs(a.Lng - c.LatLng.Lng) * CmPerMilliDegreeLng) \div 1000
    IN  north * north + east * east

\* charger.DistanceInMeters(latlng) < 20
InRange(c, a) ==
    DistanceSquared(c, a) < (100 * GeofenceMeters) * (100 * GeofenceMeters)

\* the distance test with the comparison turned around
nearbyChargerOutside(a) ==
    LET hits == {i \in 1..Len(knownChargers) : ~InRange(knownChargers[i], a)}
    IN  IF hits = {} THEN <<>>
        ELSE <<knownChargers[CHOOSE i \in hits : \A j \in hits : i <= j]>>

\* the charger startNearbyCharging's loop returns from: the first one in
\* range, in registration order; <<>> when the loop ends without one
nearbyCharger(a) ==
    LET hits == {i \in 1..Len(knownChargers) : InRange(knownChargers[i], a)}
    IN  IF hits = {} THEN <<>>
        ELSE <<knownChargers[CHOOSE i \in hits : \A j \in hits : i <= j]>>

----------------------------------------------------------------------------
(* The state of the supervisor before any vehicle loop is started          *)

LoopsIdle ==
    /\ vehicles = {}
    /\ pc = <<>>
    /\ data = <<>>
    /\ prevData = <<>>
    /\ delay = <<>>
    /\ result = <<>>
    /\ charging = FALSE
    /\ cancelled = FALSE
    /\ firstErr = "nil"
    /\ listener = "serving"
    /\ env = <<>>
    /\ discovery = "pending"
    /\ runResult = "running"
    /\ stats = <<>>
    /\ pollers = <<>>
    /\ can = <<>>
    /\ shutdown = "waiting"
    /\ polls = <<>>
    /\ portHist = <<>>
    /\ qualCount = <<>>
    /\ statusCount = <<>>
    /\ stops = <<>>
    /\ startLog = <<>>
    /\ sessions = <<>>
    /\ errs = <<>>

----------------------------------------------------------------------------
(* SpecReg: setCounter called concurrently, statement by statement         *)

\* Number of tasks calling setCounter concurrently.
NumCallers == 2

Callers == 1..NumCallers
RegKeys == {"tesla:a", "tesla:b"}
RegValues == {1, 2}

\* no task is inside setCounter, no vehicle loop was started
CallersIdle ==
    /\ mu = 0
    /\ rpc = <<>>
    /\ args = <<>>
    /\ found = <<>>
    /\ everSet = {}
    /\ LoopsIdle

InitReg ==
    /\ gauges = <<>>
    /\ registered = <<>>
    /\ calls = <<>>
    /\ gauges0 = <<>>
    /\ input = Nil
    /\ prefix = ""
    /\ count = 0
    /\ output = <<>>
    /\ phase = "registry"
    /\ mu = 0
    /\ rpc = [t \in Callers |-> "idle"]
    /\ args = [t \in Callers |-> [key |-> "", v |-> 0]]
    /\ found = [t \in Callers |-> FALSE]
    /\ everSet = {}
    /\ LoopsIdle

\* r.mu.Lock() returning to a task that never waits for the holder
LockUnguarded(t) == TRUE

\* r.mu.Lock() returns to task t only when no task holds the mutex
Lock(t) == mu = 0

\* a task calls r.setCounter(key, v)
Call(t) ==
    /\ rpc[t] = "idle"
    /\ \E key \in RegKeys, v \in RegValues :
          args' = [args EXCEPT ![t] = [key |-> key, v |-> v]]
    /\ rpc' = [rpc EXCEPT ![t] = "lock"]
    /\ UNCHANGED <<gauges, registered, calls, gauges0, normVars, mu, found, everSet, loopVars, histVars>>

\* r.mu.Lock()
Acquire(t) ==
    /\ rpc[t] = "lock"
    /\ Lock(t)
    /\ mu' = t
    /\ gauges0' = gauges
    /\ rpc' = [rpc EXCEPT ![t] = "lookup"]
    /\ UNCHANGED <<gauges, registered, calls, normVars, args, found, everSet, loopVars, histVars>>

\* g, ok := r.mu.gauges[key]
LookupGauge(t) ==
    /\ rpc[t] = "lookup"
    /\ found' = [found EXCEPT ![t] =
                    GaugeLookup(Registry(gauges, registered, calls), args[t].key)]
    /\ rpc' = [rpc EXCEPT ![t] = IF found'[t] THEN "set" ELSE "create"]
    /\ UNCHANGED <<gauges, registered, calls, gauges0, normVars, mu, args, everSet, loopVars, histVars>>

\* if !ok { g = promauto.NewGauge(...); r.mu.gauges[key] = g }
CreateGauge(t) ==
    /\ rpc[t] = "create"
    /\ LET reg == NewGauge(Registry(gauges, registered, calls), args[t].key)
       IN  /\ gauges' = reg.gauges
           /\ registered' = reg.registered
    /\ rpc' = [rpc EXCEPT ![t] = "set"]
    /\ UNCHANGED <<calls, gauges0, normVars, mu, args, found, everSet, loopVars, histVars>>

\* g.Set(v)
SetGauge(t) ==
    /\ rpc[t] = "set"
    /\ gauges' = GaugeSet(Registry(gauges, registered, calls),
                          args[t].key, args[t].v).gauges
    /\ rpc' = [rpc EXCEPT ![t] = "unlock"]
    /\ UNCHANGED <<registered, calls, gauges0, normVars, mu, args, found, everSet, loopVars, histVars>>

\* the deferred r.mu.Unlock(), and the return
Release(t) ==
    /\ rpc[t] = "unlock"
    /\ mu' = 0
    /\ everSet' = everSet \cup {args[t].key}
    /\ rpc' = [rpc EXCEPT ![t] = "idle"]
    /\ UNCHANGED <<gauges, registered, calls, gauges0, normVars, args, found, loopVars, histVars>>

NextReg ==
    \E t \in Callers :
        \/ Call(t)
        \/ Acquire(t)
        \/ LookupGauge(t)
        \/ CreateGauge(t)
        \/ SetGauge(t)
        \/ Release(t)

SpecReg == InitReg /\ [][NextReg]_vars

\* the keys of the calls that are past their lookup
KeysInProgress == {args[t].key : t \in {c \in Callers : rpc[c] \in {"set", "unlock"}}}

\* C5: under any interleaving of concurrent setCounter calls the registry
\* holds exactly one gauge per key ever set and no key is registered twice:
\* the lookup and the creation happen in one critical section.
C5_OneGaugePerKey ==
    phase = "registry" =>
        /\ \A k \in DOMAIN registered : registered[k] = 1
        /\ DOMAIN gauges = DOMAIN registered
        /\ everSet \subseteq DOMAIN gauges
        /\ DOMAIN gauges \subseteq everSet \cup KeysInProgress
        /\ Cardinality({t \in Callers : rpc[t] \in {"lookup", "create", "set", "unlock"}}) <= 1

\* both callers have set the same key, one of them is setting it again
C5_Witness ==
    /\ phase = "registry"
    /\ everSet = {"tesla:a"}
    /\ rpc[1] = "unlock" /\ args[1].key = "tesla:a"
    /\ rpc[2] = "lock" /\ args[2].key = "tesla:a"
    /\ registered = ("tesla:a" :> 1)

\* C6: when setCounter(name, v) returns, the gauge of name reads v and every
\* other entry of the registry is as it was when the call entered; a call
\* that finds the gauge of name already at v leaves the registry as it was.
C6_SetCounterPostcondition ==
    \A t \in Callers :
        phase = "registry" /\ rpc[t] = "unlock" =>
            /\ args[t].key \in DOMAIN gauges
            /\ gauges[args[t].key] = args[t].v
            /\ DOMAIN gauges = DOMAIN gauges0 \cup {args[t].key}
            /\ \A k \in DOMAIN gauges0 : k # args[t].key => gauges[k] = gauges0[k]
            /\ (args[t].key \in DOMAIN gauges0 /\ gauges0[args[t].key] = args[t].v)
                  => gauges = gauges0

\* a repeated call setCounter("tesla:a", 2) is about to return, another
\* key's gauge untouched
C6_Witness ==
    /\ phase = "registry"
    /\ rpc[1] = "unlock"
    /\ args[1] = [key |-> "tesla:a", v |-> 2]
    /\ gauges0 = ("tesla:a" :> 2) @@ ("tesla:b" :> 1)
    /\ gauges = gauges0

\* C7: the set of keys of the registry only grows: no step removes a key
\* that was present.
C7_KeysOnlyGrow == [][DOMAIN gauges \subseteq DOMAIN gauges']_vars

\* a second key was created while the first was still present
C7_Witness ==
    /\ phase = "registry"
    /\ everSet = {"tesla:a", "tesla:b"}
    /\ DOMAIN gauges = {"tesla:a", "tesla:b"}

----------------------------------------------------------------------------
(* SpecPoll: pollTime applied to every combination of its inputs           *)

ShiftStates == {Nil, Str("P"), Str("R"), Str("D"), Str("N"), Str(""), Num(0)}

PollInputs ==
    {VehicleData(locked, shift, portOpen, "Disconnected", Nil, climateOn,
                 47630007, -122133969) :
        locked \in BOOLEAN, shift \in ShiftStates,
        portOpen \in BOOLEAN, climateOn \in BOOLEAN}

\* the variables the pure-function specifications leave at rest
RegistryIdle ==
    /\ gauges = <<>>
    /\ registered = <<>>
    /\ calls = <<>>
    /\ gauges0 = <<>>
    /\ prefix = ""
    /\ count = 0
    /\ CallersIdle

InitPoll ==
    /\ input \in PollInputs
    /\ output = <<>>
    /\ phase = "input"
    /\ RegistryIdle

\* time.NewTimer(pollTime(*data))
ComputeDelay ==
    /\ phase = "input"
    /\ output' = <<pollTime(input)>>
    /\ phase' = "scheduled"
    /\ UNCHANGED <<gauges, registered, calls, gauges0, prefix, count, input>>
    /\ UNCHANGED <<regVars, loopVars, histVars>>

NextPoll == ComputeDelay

SpecPoll == InitPoll /\ [][NextPoll]_vars

\* rule 1 and rule 2 of the scheduler, as the specification words them
Rule1(d) ==
    /\ ~d.VehicleState.Locked
    /\ d.DriveState.ShiftState \in {Nil, Str("P"), Str("R")}
    /\ ~d.ChargeState.ChargePortDoorOpen

Rule2(d) ==
    \/ d.DriveState.ShiftState \in {Str("D"), Str("R"), Str("N")}
    \/ d.ClimateState.IsClimateOn

\* C4: pollTime is a total first-match decision: the Active delay iff rule 1
\* holds, otherwise the Drive delay iff rule 2 holds, otherwise the Standby
\* delay; when both rules hold the result is the Active delay.
C4_PollTimeFirstMatch ==
    phase = "scheduled" =>
        /\ output \in {<<5>>, <<15>>, <<60>>}
        /\ output = <<5>> <=> Rule1(input)
        /\ output = <<15>> <=> ~Rule1(input) /\ Rule2(input)
        /\ output = <<60>> <=> ~Rule1(input) /\ ~Rule2(input)
        /\ Rule1(input) /\ Rule2(input) => output = <<5>>

\* unlocked, Reverse, port closed, climate on: both rules hold, Active wins
C4_Witness ==
    /\ phase = "scheduled"
    /\ input = VehicleData(FALSE, Str("R"), FALSE, "Disconnected", Nil, TRUE,
                           47630007, -122133969)
    /\ output = <<5>>

----------------------------------------------------------------------------
(* SpecGeo: the geofence match applied to positions around the charger     *)

\* offsets from the charger, in microdegrees
LatOffsets == {0, 100, 179, 180, -180, 300}
LngOffsets == {0, 150, 266, 268, -268, 400}

GeoInputs ==
    {LatLng(47630007 + dlat, -122133969 + dlng) :
        dlat \in LatOffsets, dlng \in LngOffsets}

InitGeo ==
    /\ input \in GeoInputs
    /\ output = <<>>
    /\ phase = "input"
    /\ RegistryIdle

\* the loop of startNearbyCharging over knownChargers
Match ==
    /\ phase \in {"input", "matched"}
    /\ output' = nearbyCharger(input)
    /\ phase' = IF phase = "input" THEN "matched" ELSE "rematched"
    /\ UNCHANGED <<gauges, registered, calls, gauges0, prefix, count, input>>
    /\ UNCHANGED <<regVars, loopVars, histVars>>

NextGeo == Match

SpecGeo == InitGeo /\ [][NextGeo]_vars

\* the haversine distance to the charger, in centimetres, of the position
\* at each offset (a reference computation, rounded)
ReferenceCm ==
    (<<0, 0>> :> 0) @@ (<<0, 150>> :> 1124) @@ (<<0, 266>> :> 1993) @@
    (<<0, 268>> :> 2008) @@ (<<0, -268>> :> 2008) @@ (<<0, 400>> :> 2997) @@
    (<<100, 0>> :> 1112) @@ (<<100, 150>> :> 1581) @@ (<<100, 266>> :> 2282) @@
    (<<100, 268>> :> 2296) @@ (<<100, -268>> :> 2296) @@ (<<100, 400>> :> 3197) @@
    (<<179, 0>> :> 1990) @@ (<<179, 150>> :> 2286) @@ (<<179, 266>> :> 2817) @@
    (<<179, 268>> :> 2828) @@ (<<179, -268>> :> 2828) @@ (<<179, 400>> :> 3598) @@
    (<<180, 0>> :> 2002) @@ (<<180, 150>> :> 2296) @@ (<<180, 266>> :> 2825) @@
    (<<180, 268>> :> 2835) @@ (<<180, -268>> :> 2835) @@ (<<180, 400>> :> 3604) @@
    (<<-180, 0>> :> 2002) @@ (<<-180, 150>> :> 2296) @@ (<<-180, 266>> :> 2825) @@
    (<<-180, 268>> :> 2835) @@ (<<-180, -268>> :> 2835) @@ (<<-180, 400>> :> 3604) @@
    (<<300, 0>> :> 3336) @@ (<<300, 150>> :> 3520) @@ (<<300, 266>> :> 3886) @@
    (<<300, 268>> :> 3894) @@ (<<300, -268>> :> 3894) @@ (<<300, 400>> :> 4485)

RefDistance(a) == ReferenceCm[<<a.Lat - 47630007, a.Lng + 122133969>>]

\* C10: the geofence match depends on the position alone: a position at the
\* charger's coordinates matches that charger, a position farther than the
\* 20 m threshold from every charger matches none, and matching again gives
\* the same charger.
C10_GeofenceMatch ==
    phase \in {"matched", "rematched"} =>
        /\ RefDistance(input) = 0 => output = <<knownChargers[1]>>
        /\ RefDistance(input) > 100 * 20 => output = <<>>
        /\ RefDistance(input) < 100 * 20 => output = <<knownChargers[1]>>

\* a position 19.9 m north of the charger matched it, twice
C10_Witness ==
    /\ phase = "rematched"
    /\ input = LatLng(47630007 + 179, -122133969)
    /\ output = <<ChargePointCharger(1947511, LatLng(47630007, -122133969))>>

\* a position 20.1 m east of the charger matched none
C10_WitnessOutside ==
    /\ phase = "matched"
    /\ input = LatLng(47630007, -122133969 + 268)
    /\ output = <<>>

----------------------------------------------------------------------------
(* SpecNorm: processCounter applied to bounded telemetry inputs            *)

NumLeaves == {Num(n) : n \in {-1, 0, 7}}
NumericStrs == {"12", "-3", "+4", "007", "0"}
JunkStrs == {"hello", "Charging", "Complete", "-", "1x", "drive", " "}
StrLeaves == {Str(s) : s \in NumericStrs \cup JunkStrs \cup DOMAIN counterStrs}
AllLeaves == NumLeaves \cup StrLeaves \cup {Bool(TRUE), Bool(FALSE), Nil, List}
\* the leaves used below the top level
NestLeaves == {Num(7), Str("DRIVE"), Str("hello")}

TopKeys == {"a", "b", "a:b"}
InnerKeys == {"b"}

\* the sequences of at most MaxEntries entries with distinct keys
RECURSIVE EntrySeqs(_, _, _)
EntrySeqs(keys, values, n) ==
    IF n = 0 THEN {<<>>}
    ELSE LET shorter == EntrySeqs(keys, values, n - 1)
         IN  shorter \cup
             {Append(es, Entry(k, v)) :
                 es \in {e \in shorter : Len(e) = n - 1},
                 k \in keys, v \in values}

DistinctKeys(es) == \A i, j \in 1..Len(es) : es[i].k = es[j].k => i = j

MapsOver(keys, values) ==
    {Map(es) : es \in {e \in EntrySeqs(keys, values, MaxEntries) : DistinctKeys(e)}}

InnerMaps == MapsOver(InnerKeys, NestLeaves)

NormInputs ==
    AllLeaves
    \cup {Map(<<Entry(k, v)>>) : k \in TopKeys, v \in AllLeaves}
    \cup MapsOver(TopKeys, NestLeaves \cup InnerMaps)

Prefixes == {"tesla", "carserver"}

\* registries the call can start from: empty, or holding earlier values
StartGauges == {<<>>, ("tesla:a" :> 99) @@ ("tesla:zz" :> 5)}

InitNorm ==
    /\ input \in NormInputs
    /\ prefix \in Prefixes
    /\ gauges \in StartGauges
    /\ gauges0 = gauges
    /\ registered = [k \in DOMAIN gauges |-> 1]
    /\ calls = <<>>
    /\ count = 0
    /\ output = <<>>
    /\ phase = "input"
    /\ CallersIdle

\* count := r.processCounter(prefix, input)
Normalize ==
    /\ phase = "input"
    /\ LET res == processCounter(Registry(gauges, registered, <<>>), prefix, input)
       IN  /\ gauges' = res.reg.gauges
           /\ registered' = res.reg.registered
           /\ calls' = res.reg.calls
           /\ count' = res.n
    /\ phase' = "normalized"
    /\ UNCHANGED <<input, prefix, gauges0, output>>
    /\ UNCHANGED <<regVars, loopVars, histVars>>

NextNorm == Normalize

SpecNorm == InitNorm /\ [][NextNorm]_vars

----------------------------------------------------------------------------
(* What the normalizer is expected to write, stated leaf by leaf           *)

\* the symbolic constants the specification documents
DocumentedStrs ==
    ("DRIVE" :> 2) @@ ("PARKED" :> 1) @@ ("REVERSE" :> 3) @@ ("NEUTRAL" :> 4) @@
    ("ENGAGED" :> 1) @@ ("NOMINAL" :> 1) @@ ("On" :> 1) @@ ("yes" :> 1) @@
    ("DISENGAGED" :> 0) @@ ("FAULT" :> 0) @@ ("Off" :> 0) @@ ("no" :> 0) @@
    ("--" :> -1) @@ ("NONE" :> -1) @@ ("" :> -1)

\* the number each numeric input string denotes
ExpectedNumber ==
    ("12" :> 12) @@ ("-3" :> -3) @@ ("+4" :> 4) @@ ("007" :> 7) @@ ("0" :> 0)

\* <<x>> when leaf v resolves to the number x, <<>> when it resolves to none
Resolved(v) ==
    CASE v.t = "num"  -> <<v.n>>
      [] v.t = "bool" -> <<IF v.b THEN 1 ELSE 0>>
      [] v.t = "nil"  -> <<0>>
      [] v.t = "str"  ->
            IF v.s \in DOMAIN ExpectedNumber THEN <<ExpectedNumber[v.s]>>
            ELSE IF v.s \in DOMAIN DocumentedStrs THEN <<DocumentedStrs[v.s]>>
            ELSE IF v.s \in DOMAIN counterStrs THEN <<counterStrs[v.s]>>
            ELSE <<>>
      [] OTHER        -> <<>>

\* the leaves of v, each with its colon-joined key and its position
RECURSIVE LeavesOf(_, _, _)
LeavesOf(key, v, at) ==
    IF v.t = "map"
    THEN UNION {LeavesOf(key \o ":" \o v.es[i].k, v.es[i].v, Append(at, i)) :
                   i \in 1..Len(v.es)}
    ELSE {[key |-> key, v |-> v, at |-> at]}

ResolvableLeaves == {l \in LeavesOf(prefix, input, <<>>) : Resolved(l.v) # <<>>}

WriteOf(l) == [key |-> l.key, v |-> Resolved(l.v)[1]]

\* C8: processCounter makes one setCounter write per numerically resolvable
\* leaf, keyed by the prefix and the colon-joined path, with the leaf's
\* number (a number itself, a numeric string's number, else the symbolic
\* table's constant); unresolvable strings write nothing; afterwards the
\* registry holds every such key with the value of a leaf of that key and
\* every other entry as it was.
C8_OneEntryPerResolvableLeaf ==
    phase = "normalized" =>
        LET made  == {calls[i] : i \in 1..Len(calls)}
            pairs == made \cup {WriteOf(l) : l \in ResolvableLeaves}
        IN  /\ \A p \in pairs :
                  Cardinality({i \in 1..Len(calls) : calls[i] = p})
                      = Cardinality({l \in ResolvableLeaves : WriteOf(l) = p})
            /\ \A l \in ResolvableLeaves :
                  /\ l.key \in DOMAIN gauges
                  /\ \E m \in ResolvableLeaves :
                        m.key = l.key /\ gauges[l.key] = WriteOf(m).v
            /\ \A k \in DOMAIN gauges :
                  k \notin {l.key : l \in ResolvableLeaves}
                      => k \in DOMAIN gauges0 /\ gauges[k] = gauges0[k]

\* a nested response with a symbolic string, a numeric string's sibling and
\* an unresolvable string has been normalized
C8_Witness ==
    /\ phase = "normalized"
    /\ prefix = "tesla"
    /\ gauges0 = <<>>
    /\ input = Map(<<Entry("a", Map(<<Entry("b", Str("DRIVE"))>>)),
                     Entry("b", Str("hello"))>>)
    /\ gauges = ("tesla:a:b" :> 2)

RECURSIVE CountOf(_)
RECURSIVE SumCounts(_)
SumCounts(es) == IF es = <<>> THEN 0 ELSE CountOf(Head(es).v) + SumCounts(Tail(es))

\* the count the specification gives a value
CountOf(v) ==
    CASE v.t = "map"                    -> SumCounts(v.es)
      [] v.t \in {"num", "bool", "nil"} -> 1
      [] v.t = "str"                    -> IF Resolved(v) # <<>> THEN 1 ELSE 0
      [] OTHER                          -> 0

\* C9: the count processCounter returns is the number of setCounter writes
\* it made: 1 for a number, a boolean, null and a resolvable string, 0 for
\* an unresolvable string and an unsupported type, the sum of the members'
\* counts for a mapping.
C9_CountIsWritesMade ==
    phase = "normalized" => count = Len(calls) /\ count = CountOf(input)

\* a mapping with a nested number, a symbolic string: two writes counted
C9_Witness ==
    /\ phase = "normalized"
    /\ input = Map(<<Entry("a", Map(<<Entry("b", Num(7))>>)),
                     Entry("b", Str("DRIVE"))>>)
    /\ count = 2
    /\ Len(calls) = 2

----------------------------------------------------------------------------
(* Spec: the supervisor (run) with one monitorVehicle loop per vehicle and  *)
(* the metrics listener. A remote call is one step whose outcome the       *)
(* environment chooses; a call made on a cancelled context fails.          *)

\* Most snapshots one vehicle loop fetches.
MaxPolls == 5

\* the value of key k of the JSON object m; Nil when m has no such key
Lookup(m, k) ==
    LET hits == {i \in 1..Len(m.es) : m.es[i].k = k}
    IN  IF m.t = "map" /\ hits # {} THEN m.es[CHOOSE i \in hits : TRUE].v
        ELSE Nil

\* json.Unmarshal into a bool, a string, a float64 and a struct field
\* accepts a value of that JSON type, or null, which leaves the zero value
DecodesAs(v, t) == v.t \in {t, "nil"}

DecodeBool(v) == IF v.t = "bool" THEN v.b ELSE FALSE

DecodeString(v) == IF v.t = "str" THEN v.s ELSE ""

DecodeFloat(v) == IF v.t = "num" THEN v.n ELSE 0

\* the body, as json.Unmarshal(body, &out) reads out["response"]
Raw(d) ==
    Map(<<
      Entry("charge_state", Map(<<
        Entry("charge_port_door_open", Bool(d.ChargeState.ChargePortDoorOpen)),
        Entry("charging_state", Str(d.ChargeState.ChargingState)),
        Entry("charger_pilot_current", d.ChargeState.ChargerPilotCurrent)>>)),
      Entry("drive_state", Map(<<
        Entry("shift_state", d.DriveState.ShiftState),
        Entry("latitude", Num(d.DriveState.Latitude)),
        Entry("longitude", Num(d.DriveState.Longitude))>>)),
      Entry("vehicle_state", Map(<<
        Entry("locked", Bool(d.VehicleState.Locked))>>)),
      Entry("climate_state", Map(<<
        Entry("is_climate_on", Bool(d.ClimateState.IsClimateOn))>>))>>)

\* json.Unmarshal(body, &resp) succeeds
Decodable(body) ==
    /\ \A k \in {"charge_state", "drive_state", "vehicle_state", "climate_state"} :
          DecodesAs(Lookup(body, k), "map")
    /\ DecodesAs(Lookup(Lookup(body, "charge_state"), "charge_port_door_open"), "bool")
    /\ DecodesAs(Lookup(Lookup(body, "charge_state"), "charging_state"), "str")
    /\ DecodesAs(Lookup(Lookup(body, "drive_state"), "latitude"), "num")
    /\ DecodesAs(Lookup(Lookup(body, "drive_state"), "longitude"), "num")
    /\ DecodesAs(Lookup(Lookup(body, "vehicle_state"), "locked"), "bool")
    /\ DecodesAs(Lookup(Lookup(body, "climate_state"), "is_climate_on"), "bool")

\* resp.Response after json.Unmarshal(body, &resp)
Decode(body) ==
    LET cs == Lookup(body, "charge_state")
        ds == Lookup(body, "drive_state")
    IN  VehicleData(
          DecodeBool(Lookup(Lookup(body, "vehicle_state"), "locked")),
          Lookup(ds, "shift_state"),
          DecodeBool(Lookup(cs, "charge_port_door_open")),
          DecodeString(Lookup(cs, "charging_state")),
          Lookup(cs, "charger_pilot_current"),
          DecodeBool(Lookup(Lookup(body, "climate_state"), "is_climate_on")),
          DecodeFloat(Lookup(ds, "latitude")),
          DecodeFloat(Lookup(ds, "longitude")))

\* the charging state and pilot current a response reports
ChargeReports ==
    {<<StateCharging, Num(5)>>, <<StateComplete, Num(5)>>,
     <<StateComplete, Num(1)>>}

\* the positions a response reports: at the charger, and 20.08 m east of it
Positions == {LatLng(47630007, -122133969), LatLng(47630007, -122133969 + 268)}

\* the bodies the vehicle API answers with
Responses ==
    {Raw(VehicleData(FALSE, Str("P"), port, c[1], c[2], FALSE, at.Lat, at.Lng)) :
        port \in BOOLEAN, c \in ChargeReports, at \in Positions}

\* a body that is JSON but not a VehicleDataResponse
BadResponses ==
    {Map(<<Entry("charge_state", Map(<<
        Entry("charge_port_door_open", Str("yes"))>>))>>)}

\* the answers of chargepoint.UserStatus: a session and its stations
UserStatus(sessionID, stations) ==
    [Charging |-> [SessionID |-> sessionID, Stations |-> stations]]

UserStatuses == {UserStatus(0, <<>>), UserStatus(77, <<1947511>>)}

\* s2.LatLngFromDegrees(data.Latitude, data.Longitude)
LatLngFromDegrees(lat, lng) == LatLng(lat, lng)

\* pilotCurrent, _ := data.ChargeState.ChargerPilotCurrent.(float64)
pilotCurrent(d) == DecodeFloat(d.ChargeState.ChargerPilotCurrent)

\* the stop condition with a comparison that is not strict
stopConditionFromOne(d) ==
    d.ChargeState.ChargingState = StateComplete /\ pilotCurrent(d) >= 1

\* the stop condition without the pilot current
stopConditionStateOnly(d) == d.ChargeState.ChargingState = StateComplete

\* data.ChargeState.ChargingState == StateComplete && pilotCurrent > 1
stopCondition(d) ==
    d.ChargeState.ChargingState = StateComplete /\ pilotCurrent(d) > 1

\* the start condition on the current snapshot alone
startConditionLevel(prev, d) == d.ChargeState.ChargePortDoorOpen

\* prevData != nil && !prevData...ChargePortDoorOpen && data...ChargePortDoorOpen
startCondition(prev, d) ==
    /\ prev # <<>>
    /\ ~prev[1].ChargeState.ChargePortDoorOpen
    /\ d.ChargeState.ChargePortDoorOpen

\* the StopSession calls stopCharging makes when the failAt-th one fails
\* (none fails when failAt = 0), and the error it returns
stopCharging(status, failAt) ==
    LET stations == status.Charging.Stations
        last == IF failAt = 0 THEN Len(stations) ELSE failAt
    IN  [stopped |-> [i \in 1..last |->
                         [SessionID |-> status.Charging.SessionID,
                          DeviceID |-> stations[i]]],
         err |-> IF failAt = 0 THEN "nil" ELSE "StopSession"]

\* two StartSession calls for one match
startNearbyChargingTwice(at) ==
    IF nearbyCharger(at) = <<>> THEN <<>>
    ELSE <<nearbyCharger(at)[1].DeviceID, nearbyCharger(at)[1].DeviceID>>

\* the device ids startNearbyCharging calls StartSession with
startNearbyCharging(at) ==
    IF nearbyCharger(at) = <<>> THEN <<>>
    ELSE <<nearbyCharger(at)[1].DeviceID>>

\* what a run is given: the vehicles r.client.Vehicles() lists, the feed
\* of bodies the vehicle API answers with, whether the histories of the
\* loops are kept, and the number of polls of each loop that are followed
\* when they are
Surroundings(fleet, feed, history, n) ==
    [fleet |-> fleet, feed |-> feed, history |-> history, polls |-> n]

\* a history after a step: what the step adds, when histories are kept
Kept(history, h, new) == IF history THEN new ELSE h

\* the bodies of a feed that decode: "full" is every response, "brief" two
\* of them, a charging and a completed vehicle away from the charger
Bodies(feed) ==
    IF feed = "full" THEN Responses
    ELSE {Raw(VehicleData(FALSE, Str("P"), FALSE, c[1], c[2], FALSE,
                          47630007, -122133969 + 268)) :
             c \in {<<StateCharging, Num(5)>>, <<StateComplete, Num(5)>>}}

\* the bodies of a feed that do not decode
BadBodies(feed) == IF feed = "full" THEN BadResponses ELSE {}

\* the statistics loop: where it is, the stopCharging error its last pass
\* logged ("nil" when none), and what it returned
StatsLoop(at, logged, res) == [pc |-> at, logged |-> logged, result |-> res]

Init ==
    /\ vehicles = {1}
    /\ pc = [v \in vehicles |-> "fetch"]
    /\ data = [v \in vehicles |-> <<>>]
    /\ prevData = [v \in vehicles |-> <<>>]
    /\ delay = [v \in vehicles |-> 0]
    /\ result = [v \in vehicles |-> "running"]
    /\ charging = FALSE
    /\ cancelled = FALSE
    /\ firstErr = "nil"
    /\ listener = "serving"
    /\ env = Surroundings({1}, "full", TRUE, MaxPolls)
    /\ discovery = "done"
    /\ runResult = "running"
    /\ stats = StatsLoop("poll", "nil", "running")
    /\ pollers = <<>>
    /\ can = <<>>
    /\ shutdown = "waiting"
    /\ polls = [v \in vehicles |-> 0]
    /\ portHist = [v \in vehicles |-> <<>>]
    /\ qualCount = [v \in vehicles |-> 0]
    /\ statusCount = [v \in vehicles |-> 0]
    /\ stops = [v \in vehicles |-> <<>>]
    /\ startLog = [v \in vehicles |-> <<>>]
    /\ sessions = [v \in vehicles |-> <<>>]
    /\ errs = [v \in vehicles |-> "nil"]
    /\ gauges = <<>>
    /\ registered = <<>>
    /\ calls = <<>>
    /\ gauges0 = <<>>
    /\ input = Nil
    /\ prefix = "tesla"
    /\ count = 0
    /\ output = <<>>
    /\ phase = "monitor"
    /\ mu = 0
    /\ rpc = <<>>
    /\ args = <<>>
    /\ found = <<>>
    /\ everSet = {}

\* the shutdown task ended the process with log.Fatal
Exited == shutdown = "fatal"

\* a flag that, once set, is not cleared
setChargingSticky(flag, c) == flag \/ c

\* r.setCharging(c): the value of r.mu.charging after it
setCharging(flag, c) == c

\* a task's error that the group does not act on
ReturnUncancelled(v, err) ==
    /\ pc' = [pc EXCEPT ![v] = "done"]
    /\ result' = [result EXCEPT ![v] = err]
    /\ UNCHANGED <<firstErr, cancelled>>
\* eg.Go's wrapper around a task that returned err without the errgroup's
\* first error replaced: a mutation of TaskReturns
TaskReturnsLatest(err) ==
    /\ firstErr' = IF err # "nil" THEN err ELSE firstErr
    /\ cancelled' = (cancelled \/ err # "nil")

\* eg.Go's wrapper around a task that returned err: the errgroup keeps the
\* first error that is not nil, and cancels ctx with it
TaskReturns(err) ==
    /\ firstErr' = IF err # "nil" /\ firstErr = "nil" THEN err ELSE firstErr
    /\ cancelled' = (cancelled \/ err # "nil")


\* monitorVehicle returns err: the errgroup keeps its first error and
\* cancels the shared context
Return(v, err) ==
    /\ pc' = [pc EXCEPT ![v] = "done"]
    /\ result' = [result EXCEPT ![v] = err]
    /\ firstErr' = IF firstErr = "nil" THEN err ELSE firstErr
    /\ cancelled' = TRUE

\* the errors of a getVehicleData attempt that has no body to decode: of
\* r.client.HTTP.Do, and of an answer whose status is not 200
FetchErrors == {"Do", "status"}

\* an error of the retry itself in place of the attempt's
backoffErrorOfBudget(err) == "budget"

\* the error backoff.Retry returns when its budget is over: the one of the
\* attempt that failed last
backoffError(err) == err

\* a retry whose error is dropped: the loop goes on to the triggers
RetryOnward(v, err, exhausted) ==
    /\ errs' = [errs EXCEPT ![v] = err]
    /\ pc' = [pc EXCEPT ![v] = "stop"]
    /\ UNCHANGED <<result, firstErr, cancelled>>

\* a retry that never finds its budget over
RetryForever(v, err, exhausted) ==
    /\ errs' = [errs EXCEPT ![v] = err]
    /\ UNCHANGED <<pc, result, firstErr, cancelled>>

\* backoff.Retry around getVehicleData after an attempt failed with err: it
\* returns the error once MaxElapsedTime is over, which it can be after any
\* attempt, and tries again otherwise, whatever the error is
Retry(v, err, exhausted) ==
    /\ errs' = [errs EXCEPT ![v] = err]
    /\ IF exhausted
       THEN Return(v, backoffError(err))
       ELSE UNCHANGED <<pc, result, firstErr, cancelled>>

\* an error that is logged, as none
loggedOnly(err) == "nil"

\* if err := ...; err != nil { return err }: the error a trigger's call
\* hands to the loop
propagated(err) == err

\* a trigger whose error is noted while the loop goes on to its next step
TriggerDeferred(v, err, next) ==
    /\ errs' = [errs EXCEPT ![v] = IF err = "nil" THEN @ ELSE err]
    /\ pc' = [pc EXCEPT ![v] = next]
    /\ UNCHANGED <<result, firstErr, cancelled>>

\* the loop after a trigger whose remote call returned err: it returns the
\* error, or goes on to the step next when there is none
Trigger(v, err, next) ==
    /\ errs' = [errs EXCEPT ![v] = IF err = "nil" THEN @ ELSE err]
    /\ IF propagated(err) = "nil"
       THEN /\ pc' = [pc EXCEPT ![v] = next]
            /\ UNCHANGED <<result, firstErr, cancelled>>
       ELSE Return(v, propagated(err))

\* a fetch that decodes the body and leaves the counters unwritten
FetchOkUnwritten(v) ==
    /\ ~Exited
    /\ pc[v] = "fetch"
    /\ ~cancelled
    /\ env.history => polls[v] < env.polls
    /\ \E body \in Bodies(env.feed) :
         LET res == processCounter(Registry(gauges, registered, <<>>), "tesla", body)
             d == Decode(body)
         IN  /\ Decodable(body)
             /\ data' = [data EXCEPT ![v] = <<d>>]
             /\ portHist' = Kept(env.history, portHist, [portHist EXCEPT
                               ![v] = Append(@, d.ChargeState.ChargePortDoorOpen)])
             /\ qualCount' = Kept(env.history, qualCount, [qualCount EXCEPT
                               ![v] = IF d.ChargeState.ChargingState = StateComplete
                                         /\ d.ChargeState.ChargerPilotCurrent.t = "num"
                                         /\ d.ChargeState.ChargerPilotCurrent.n > 1
                                      THEN @ + 1 ELSE @])
    /\ polls' = Kept(env.history, polls, [polls EXCEPT ![v] = @ + 1])
    /\ errs' = [errs EXCEPT ![v] = "nil"]
    /\ pc' = [pc EXCEPT ![v] = "stop"]
    /\ UNCHANGED <<vehicles, env, discovery, runResult, stats, pollers, can, shutdown, prevData, delay, result, charging, cancelled,
                   firstErr, listener, statusCount, stops, startLog, sessions>>
    /\ UNCHANGED <<gauges, registered, calls, count, gauges0, input, prefix, output,
                   phase, regVars>>

\* getVehicleData returns a snapshot: the counters are written from the
\* body, then the body is decoded
FetchOk(v) ==
    /\ ~Exited
    /\ pc[v] = "fetch"
    /\ ~cancelled
    /\ env.history => polls[v] < env.polls
    /\ \E body \in Bodies(env.feed) :
         LET res == processCounter(Registry(gauges, registered, <<>>), "tesla", body)
             d == Decode(body)
         IN  /\ Decodable(body)
             /\ gauges' = res.reg.gauges
             /\ registered' = res.reg.registered
             /\ calls' = calls
             /\ count' = res.n
             /\ data' = [data EXCEPT ![v] = <<d>>]
             /\ portHist' = Kept(env.history, portHist, [portHist EXCEPT
                               ![v] = Append(@, d.ChargeState.ChargePortDoorOpen)])
             /\ qualCount' = Kept(env.history, qualCount, [qualCount EXCEPT
                               ![v] = IF d.ChargeState.ChargingState = StateComplete
                                         /\ d.ChargeState.ChargerPilotCurrent.t = "num"
                                         /\ d.ChargeState.ChargerPilotCurrent.n > 1
                                      THEN @ + 1 ELSE @])
    /\ polls' = Kept(env.history, polls, [polls EXCEPT ![v] = @ + 1])
    /\ errs' = [errs EXCEPT ![v] = "nil"]
    /\ pc' = [pc EXCEPT ![v] = "stop"]
    /\ UNCHANGED <<vehicles, env, discovery, runResult, stats, pollers, can, shutdown, prevData, delay, result, charging, cancelled,
                   firstErr, listener, statusCount, stops, startLog, sessions>>
    /\ UNCHANGED <<gauges0, input, prefix, output, phase, regVars>>

\* getVehicleData writes the counters of a body it then fails to decode:
\* data is nil, and backoff.Retry tries again or gives up
FetchUndecodable(v) ==
    /\ ~Exited
    /\ pc[v] = "fetch"
    /\ ~cancelled
    /\ \E body \in BadBodies(env.feed) :
         LET res == processCounter(Registry(gauges, registered, <<>>), "tesla", body)
         IN  /\ ~Decodable(body)
             /\ gauges' = res.reg.gauges
             /\ registered' = res.reg.registered
             /\ calls' = calls
             /\ count' = res.n
    /\ data' = [data EXCEPT ![v] = <<>>]
    /\ \E exhausted \in BOOLEAN : Retry(v, "unmarshal", exhausted)
    /\ UNCHANGED <<vehicles, env, discovery, runResult, stats, pollers, can, shutdown, prevData,
                   delay, charging, listener>>
    /\ UNCHANGED <<polls, portHist, qualCount, statusCount, stops, startLog, sessions>>
    /\ UNCHANGED <<gauges0, input, prefix, output, phase, regVars>>

\* getVehicleData fails before it has a body, the request failing or the
\* answer's status not being 200: data is nil, and backoff.Retry tries
\* again or gives up
FetchFail(v) ==
    /\ ~Exited
    /\ pc[v] = "fetch"
    /\ data' = [data EXCEPT ![v] = <<>>]
    /\ \E err \in IF cancelled THEN {"Do"} ELSE FetchErrors :
       \E exhausted \in BOOLEAN : Retry(v, err, exhausted)
    /\ UNCHANGED <<vehicles, env, discovery, runResult, stats, pollers, can, shutdown, prevData,
                   delay, charging, listener>>
    /\ UNCHANGED <<polls, portHist, qualCount, statusCount, stops, startLog, sessions>>
    /\ UNCHANGED <<gauges, registered, calls, gauges0, normVars, regVars>>

\* the stop trigger: the condition is false
StopSkip(v) ==
    /\ ~Exited
    /\ pc[v] = "stop"
    /\ ~stopCondition(data[v][1])
    /\ pc' = [pc EXCEPT ![v] = "start"]
    /\ UNCHANGED <<vehicles, env, discovery, runResult, stats, pollers, can, shutdown, data, prevData, delay, result, charging,
                   cancelled, firstErr, listener, histVars>>
    /\ UNCHANGED <<gauges, registered, calls, gauges0, normVars, regVars>>

\* the stop trigger: stopCharging, whose UserStatus query fails
StopStatusFail(v) ==
    /\ ~Exited
    /\ pc[v] = "stop"
    /\ stopCondition(data[v][1])
    /\ statusCount' = Kept(env.history, statusCount,
                            [statusCount EXCEPT ![v] = @ + 1])
    /\ Trigger(v, "UserStatus", "start")
    /\ UNCHANGED <<vehicles, env, discovery, runResult, stats, pollers, can, shutdown, data,
                   prevData, delay, charging, listener>>
    /\ UNCHANGED <<polls, portHist, qualCount, stops, startLog, sessions>>
    /\ UNCHANGED <<gauges, registered, calls, gauges0, normVars, regVars>>

\* the stop trigger: stopCharging, whose UserStatus query is answered
StopSessions(v) ==
    /\ ~Exited
    /\ pc[v] = "stop"
    /\ stopCondition(data[v][1])
    /\ ~cancelled
    /\ statusCount' = Kept(env.history, statusCount,
                            [statusCount EXCEPT ![v] = @ + 1])
    /\ \E status \in UserStatuses :
       \E failAt \in 0..Len(status.Charging.Stations) :
         LET done == stopCharging(status, failAt)
         IN  /\ stops' = Kept(env.history, stops,
                              [stops EXCEPT ![v] = done.stopped])
             /\ Trigger(v, done.err, "start")
    /\ UNCHANGED <<vehicles, env, discovery, runResult, stats, pollers, can, shutdown, data,
                   prevData, delay, charging, listener>>
    /\ UNCHANGED <<polls, portHist, qualCount, startLog, sessions>>
    /\ UNCHANGED <<gauges, registered, calls, gauges0, normVars, regVars>>

\* the start trigger: the condition is false
StartSkip(v) ==
    /\ ~Exited
    /\ pc[v] = "start"
    /\ ~startCondition(prevData[v], data[v][1])
    /\ pc' = [pc EXCEPT ![v] = "flag"]
    /\ UNCHANGED <<vehicles, env, discovery, runResult, stats, pollers, can, shutdown, data, prevData, delay, result, charging,
                   cancelled, firstErr, listener, histVars>>
    /\ UNCHANGED <<gauges, registered, calls, gauges0, normVars, regVars>>

\* the start trigger: startNearbyCharging, and the StartSession call of
\* the charger it finds, which succeeds or fails
StartNearby(v) ==
    /\ ~Exited
    /\ pc[v] = "start"
    /\ startCondition(prevData[v], data[v][1])
    /\ LET at == LatLngFromDegrees(data[v][1].DriveState.Latitude,
                                   data[v][1].DriveState.Longitude)
           ids == startNearbyCharging(at)
       IN  /\ startLog' = Kept(env.history, startLog, [startLog EXCEPT
                             ![v] = Append(@, [poll |-> polls[v], at |-> at])])
           /\ sessions' = Kept(env.history, sessions, [sessions EXCEPT
                             ![v] = @ \o [i \in 1..Len(ids) |->
                                            [poll |-> polls[v], DeviceID |-> ids[i]]]])
           /\ \E ok \in {b \in BOOLEAN : (ids = <<>> => b) /\ (cancelled /\ ids # <<>> => ~b)} :
                Trigger(v, IF ok THEN "nil" ELSE "StartSession", "flag")
    /\ UNCHANGED <<vehicles, env, discovery, runResult, stats, pollers, can, shutdown, data,
                   prevData, delay, charging, listener>>
    /\ UNCHANGED <<polls, portHist, qualCount, statusCount, stops>>
    /\ UNCHANGED <<gauges, registered, calls, gauges0, normVars, regVars>>

\* the step with the previous snapshot kept in one place for all loops
SetChargingShared(v) ==
    /\ ~Exited
    /\ pc[v] = "flag"
    /\ charging' = setCharging(charging,
                               data[v][1].ChargeState.ChargingState = StateCharging)
    /\ prevData' = [w \in vehicles |-> data[v]]
    /\ delay' = [delay EXCEPT ![v] = pollTime(data[v][1])]
    /\ stops' = [stops EXCEPT ![v] = <<>>]
    /\ pc' = [pc EXCEPT ![v] = "wait"]
    /\ UNCHANGED <<vehicles, env, discovery, runResult, stats, pollers, can, shutdown, data, result, cancelled, firstErr, listener,
                   polls, portHist, qualCount, statusCount, startLog, sessions, errs>>
    /\ UNCHANGED <<gauges, registered, calls, gauges0, normVars, regVars>>

\* r.setCharging(...); prevData = data; the timer is set to pollTime(*data)
SetCharging(v) ==
    /\ ~Exited
    /\ pc[v] = "flag"
    /\ charging' = setCharging(charging,
                               data[v][1].ChargeState.ChargingState = StateCharging)
    /\ prevData' = [prevData EXCEPT ![v] = data[v]]
    /\ delay' = [delay EXCEPT ![v] = pollTime(data[v][1])]
    /\ stops' = [stops EXCEPT ![v] = <<>>]
    /\ pc' = [pc EXCEPT ![v] = "wait"]
    /\ UNCHANGED <<vehicles, env, discovery, runResult, stats, pollers, can, shutdown, data, result, cancelled, firstErr, listener,
                   polls, portHist, qualCount, statusCount, startLog, sessions, errs>>
    /\ UNCHANGED <<gauges, registered, calls, gauges0, normVars, regVars>>

\* select: the timer fires (when ctx.Done() is ready too, either case may run)
WaitTimer(v) ==
    /\ ~Exited
    /\ pc[v] = "wait"
    /\ env.history => polls[v] < env.polls
    /\ pc' = [pc EXCEPT ![v] = "fetch"]
    /\ UNCHANGED <<vehicles, env, discovery, runResult, stats, pollers, can, shutdown, data, prevData, delay, result, charging,
                   cancelled, firstErr, listener, histVars>>
    /\ UNCHANGED <<gauges, registered, calls, gauges0, normVars, regVars>>

\* select: case <-ctx.Done(): return nil
WaitCancelled(v) ==
    /\ ~Exited
    /\ pc[v] = "wait"
    /\ cancelled
    /\ pc' = [pc EXCEPT ![v] = "done"]
    /\ result' = [result EXCEPT ![v] = "nil"]
    /\ UNCHANGED <<vehicles, env, discovery, runResult, stats, pollers, can, shutdown, data, prevData, delay, charging,
                   cancelled, firstErr, listener, histVars>>
    /\ UNCHANGED <<gauges, registered, calls, gauges0, normVars, regVars>>

\* s.ListenAndServe() returns its error
ListenerFails ==
    /\ ~Exited
    /\ listener = "serving"
    /\ listener' = "failed"
    /\ firstErr' = IF firstErr = "nil" THEN "ListenAndServe" ELSE firstErr
    /\ cancelled' = TRUE
    /\ UNCHANGED <<vehicles, env, discovery, runResult, stats, pollers, can, shutdown, pc, data, prevData, delay, result, charging,
                   histVars>>
    /\ UNCHANGED <<gauges, registered, calls, gauges0, normVars, regVars>>

Next ==
    \/ \E v \in vehicles : FetchOk(v)
    \/ \E v \in vehicles : FetchUndecodable(v)
    \/ \E v \in vehicles : FetchFail(v)
    \/ \E v \in vehicles : StopSkip(v)
    \/ \E v \in vehicles : StopStatusFail(v)
    \/ \E v \in vehicles : StopSessions(v)
    \/ \E v \in vehicles : StartSkip(v)
    \/ \E v \in vehicles : StartNearby(v)
    \/ \E v \in vehicles : SetCharging(v)
    \/ \E v \in vehicles : WaitTimer(v)
    \/ \E v \in vehicles : WaitCancelled(v)
    \/ ListenerFails

Spec == Init /\ [][Next]_vars

----------------------------------------------------------------------------
(* SpecRun: run() as a whole: vehicle discovery, one monitorVehicle loop   *)
(* per vehicle, the ChargePoint statistics loop, the metrics listener, the *)
(* task that shuts the listener down, and eg.Wait().                       *)

ChargingDone == "done"
ChargingFullyCharged == "fully_charged"

ChargingSession(startTime, currentCharging, totalAmount) ==
    [StartTime |-> startTime, CurrentCharging |-> currentCharging,
     TotalAmount |-> totalAmount, MilesAdded |-> 2 * totalAmount,
     EnergyKwh |-> 3 * totalAmount, PowerKw |-> 6, Lat |-> 47630007,
     Lon |-> -122133969]

\* the answers of chargepoint.GetSessions, each sorted by start time
SessionListings ==
    {<<>>,
     <<ChargingSession(1, ChargingDone, 4)>>,
     <<ChargingSession(1, ChargingDone, 4),
       ChargingSession(2, ChargingFullyCharged, 5)>>}

\* Most months of one charging_activity_monthly response.
MaxMonths == 2

\* the sessions a month of the response lists: of two started at the same
\* time one is fully charged
MonthSessions ==
    {ChargingSession(1, ChargingDone, 4),
     ChargingSession(2, ChargingFullyCharged, 5),
     ChargingSession(2, ChargingDone, 1)}

\* month.Sessions of the months of a response, in the order of the response
Months ==
    {<<>>,
     <<ChargingSession(1, ChargingDone, 4)>>,
     <<ChargingSession(2, ChargingFullyCharged, 5)>>,
     <<ChargingSession(2, ChargingDone, 1), ChargingSession(1, ChargingDone, 4)>>,
     <<ChargingSession(2, ChargingFullyCharged, 5), ChargingSession(2, ChargingDone, 1)>>}

\* resp.ChargingActivityMonthly.MonthInfo
MonthInfos == UNION {[1..n -> Months] : n \in 0..MaxMonths}

\* the order with the latest session first: a mutation of less
lessLatestFirst(si, sj) == sj.StartTime < si.StartTime

\* func(i, j int) bool { return sessions[i].StartTime < sessions[j].StartTime }
less(si, sj) == si.StartTime < sj.StartTime

RECURSIVE flatten(_)
\* for _, month := range MonthInfo { sessions = append(sessions, month.Sessions...) }
flatten(months) ==
    IF months = <<>> THEN <<>> ELSE Head(months) \o flatten(Tail(months))

\* sorted with s put at one of the places the order allows
Insertions(sorted, s) ==
    {SubSeq(sorted, 1, k) \o <<s>> \o SubSeq(sorted, k + 1, Len(sorted)) :
        k \in {j \in 0..Len(sorted) :
                  /\ \A i \in 1..j : ~less(s, sorted[i])
                  /\ \A i \in (j + 1)..Len(sorted) : ~less(sorted[i], s)}}

RECURSIVE sortSlice(_)
\* sort.Slice(sessions, less): the orders it can leave the slice in; it is
\* not stable, so sessions that less does not order end in any order
sortSlice(ss) ==
    IF ss = <<>> THEN {<<>>}
    ELSE UNION {Insertions(t, Head(ss)) : t \in sortSlice(Tail(ss))}

\* the sessions GetSessions can return for a response
GetSessions(months) == sortSlice(flatten(months))

\* what a call of GetSessions gave the statistics loop: the months of the
\* response, the sessions returned, the error
Answer(months, ss, err) == [months |-> months, sessions |-> ss, err |-> err]

\* makeRequest failed: return nil, err
FailedAnswer == Answer(<<>>, <<>>, "GetSessions")

\* the calls of GetSessions under a feed: of the feed "months" every
\* response and the failure, of the others the listings
SessionAnswers(feed) ==
    IF feed = "months"
    THEN {FailedAnswer} \cup
         UNION {{Answer(months, ss, "nil") : ss \in GetSessions(months)} :
                months \in MonthInfos}
    ELSE {Answer(<<ss>>, ss, "nil") : ss \in SessionListings}

\* a pass of the statistics loop: the call of GetSessions, the error it
\* logged for it, whether it called stopCharging
Pass(answer, stopping) ==
    [months |-> answer.months, sessions |-> answer.sessions,
     logged |-> answer.err, stop |-> stopping]

\* the six chargepoint:latest:* gauges set from the last session
latestCounters(reg, lastSession) ==
    setCounter(setCounter(setCounter(setCounter(setCounter(setCounter(reg,
        "chargepoint:latest:total_amount", lastSession.TotalAmount),
        "chargepoint:latest:miles_added", lastSession.MilesAdded),
        "chargepoint:latest:energy_kwh", lastSession.EnergyKwh),
        "chargepoint:latest:power_kw", lastSession.PowerKw),
        "chargepoint:latest:latitude", lastSession.Lat),
        "chargepoint:latest:longitude", lastSession.Lon)

RECURSIVE sumSessions(_, _)
\* for _, session := range sessions { total += session.<field> }
sumSessions(listing, field) ==
    IF listing = <<>> THEN 0
    ELSE Head(listing)[field] + sumSessions(Tail(listing), field)

\* the totals written only when sessions are listed: a mutation of
\* totalCounters
totalCountersOfSessions(reg, listing) ==
    IF listing = <<>> THEN reg
    ELSE setCounter(setCounter(setCounter(reg,
             "chargepoint:total_amount", sumSessions(listing, "TotalAmount")),
             "chargepoint:miles_added", sumSessions(listing, "MilesAdded")),
             "chargepoint:energy_kwh", sumSessions(listing, "EnergyKwh"))

\* the three chargepoint:* totals
totalCounters(reg, listing) ==
    setCounter(setCounter(setCounter(reg,
        "chargepoint:total_amount", sumSessions(listing, "TotalAmount")),
        "chargepoint:miles_added", sumSessions(listing, "MilesAdded")),
        "chargepoint:energy_kwh", sumSessions(listing, "EnergyKwh"))

\* the errors stopCharging can return: of its UserStatus query, of one of
\* its StopSession calls, or none
StopErrors ==
    {"UserStatus"} \cup
    UNION {{stopCharging(status, failAt).err :
               failAt \in 0..Len(status.Charging.Stations)} :
           status \in UserStatuses}

InitRun ==
    /\ vehicles = {}
    /\ pc = <<>>
    /\ data = <<>>
    /\ prevData = <<>>
    /\ delay = <<>>
    /\ result = <<>>
    /\ charging = FALSE
    /\ cancelled = FALSE
    /\ firstErr = "nil"
    /\ listener = "serving"
    /\ env = Surroundings({1, 2}, "brief", FALSE, 0)
    /\ discovery = "pending"
    /\ runResult = "running"
    /\ stats = StatsLoop("poll", "nil", "running")
    /\ pollers = <<>>
    /\ can = <<>>
    /\ shutdown = "waiting"
    /\ polls = <<>>
    /\ portHist = <<>>
    /\ qualCount = <<>>
    /\ statusCount = <<>>
    /\ stops = <<>>
    /\ startLog = <<>>
    /\ sessions = <<>>
    /\ errs = <<>>
    /\ gauges = <<>>
    /\ registered = <<>>
    /\ calls = <<>>
    /\ gauges0 = <<>>
    /\ input = Nil
    /\ prefix = "tesla"
    /\ count = 0
    /\ output = <<>>
    /\ phase = "run"
    /\ mu = 0
    /\ rpc = <<>>
    /\ args = <<>>
    /\ found = <<>>
    /\ everSet = {}

\* r.client.Vehicles() answers: one monitorVehicle task per vehicle
Discover ==
    /\ ~Exited
    /\ discovery = "pending"
    /\ discovery' = "done"
    /\ vehicles' = env.fleet
    /\ pc' = [v \in env.fleet |-> "fetch"]
    /\ data' = [v \in env.fleet |-> <<>>]
    /\ prevData' = [v \in env.fleet |-> <<>>]
    /\ delay' = [v \in env.fleet |-> 0]
    /\ result' = [v \in env.fleet |-> "running"]
    /\ polls' = [v \in env.fleet |-> 0]
    /\ portHist' = [v \in env.fleet |-> <<>>]
    /\ qualCount' = [v \in env.fleet |-> 0]
    /\ statusCount' = [v \in env.fleet |-> 0]
    /\ stops' = [v \in env.fleet |-> <<>>]
    /\ startLog' = [v \in env.fleet |-> <<>>]
    /\ sessions' = [v \in env.fleet |-> <<>>]
    /\ errs' = [v \in env.fleet |-> "nil"]
    /\ UNCHANGED <<charging, cancelled, firstErr, listener, env, runResult,
                   stats, pollers, can, shutdown>>
    /\ UNCHANGED <<gauges, registered, calls, gauges0, normVars, regVars>>

\* r.client.Vehicles() fails: the task returns the error
DiscoveryFails ==
    /\ ~Exited
    /\ discovery = "pending"
    /\ discovery' = "failed"
    /\ firstErr' = IF firstErr = "nil" THEN "Vehicles" ELSE firstErr
    /\ cancelled' = TRUE
    /\ UNCHANGED <<vehicles, pc, data, prevData, delay, result, charging,
                   listener, env, runResult, stats, pollers, can, shutdown, histVars>>
    /\ UNCHANGED <<gauges, registered, calls, gauges0, normVars, regVars>>

\* one pass of the statistics loop up to its select: the session listing
\* (nil when GetSessions fails), the gauges, and stopCharging when the last
\* session is fully charged, whose error is logged
StatsPoll ==
    /\ ~Exited
    /\ stats.pc = "poll"
    /\ \E answer \in IF cancelled THEN {FailedAnswer} ELSE SessionAnswers(env.feed) :
       \E err \in StopErrors :
         LET listing == answer.sessions
             stopping == /\ Len(listing) > 0
                         /\ listing[Len(listing)].CurrentCharging = ChargingFullyCharged
             latest == IF Len(listing) > 0
                       THEN latestCounters(Registry(gauges, registered, <<>>),
                                           listing[Len(listing)])
                       ELSE Registry(gauges, registered, <<>>)
             reg == totalCounters(latest, listing)
         IN  /\ ~stopping => err = "nil"
             /\ stopping /\ cancelled => err # "nil"
             /\ gauges' = reg.gauges
             /\ registered' = reg.registered
             /\ calls' = calls
             /\ stats' = [stats EXCEPT !.pc = "wait", !.logged = err]
             /\ output' = Kept(env.history, output, Pass(answer, stopping))
    /\ UNCHANGED <<vehicles, pc, data, prevData, delay, result, charging,
                   cancelled, firstErr, listener, env, discovery, runResult,
                   shutdown, histVars>>
    /\ UNCHANGED <<gauges0, input, prefix, count, phase, regVars>>
    /\ UNCHANGED <<pollers, can>>

\* the statistics loop's select: the timer fires
StatsTimer ==
    /\ ~Exited
    /\ stats.pc = "wait"
    /\ stats' = [stats EXCEPT !.pc = "poll"]
    /\ UNCHANGED <<vehicles, pc, data, prevData, delay, result, charging,
                   cancelled, firstErr, listener, env, discovery, runResult,
                   shutdown, histVars>>
    /\ UNCHANGED <<gauges, registered, calls, gauges0, normVars, regVars>>
    /\ UNCHANGED <<pollers, can>>

\* the statistics loop's select: case <-ctx.Done(): return nil
StatsCancelled ==
    /\ ~Exited
    /\ stats.pc = "wait"
    /\ cancelled
    /\ stats' = [stats EXCEPT !.pc = "done", !.result = "nil"]
    /\ UNCHANGED <<vehicles, pc, data, prevData, delay, result, charging,
                   cancelled, firstErr, listener, env, discovery, runResult,
                   shutdown, histVars>>
    /\ UNCHANGED <<gauges, registered, calls, gauges0, normVars, regVars>>
    /\ UNCHANGED <<pollers, can>>

\* <-ctx.Done(); s.Shutdown(ctxShutDown): the listener returns
\* http.ErrServerClosed, or Shutdown fails and log.Fatal ends the process
Shutdown ==
    /\ ~Exited
    /\ cancelled
    /\ shutdown = "waiting"
    /\ \E ok \in BOOLEAN :
         IF ok
         THEN /\ shutdown' = "done"
              /\ IF listener = "serving"
                 THEN /\ listener' = "closed"
                      /\ TaskReturns("ServerClosed")
                 ELSE UNCHANGED <<listener, firstErr, cancelled>>
         ELSE /\ shutdown' = "fatal"
              /\ UNCHANGED <<listener, firstErr, cancelled>>
    /\ UNCHANGED <<vehicles, pc, data, prevData, delay, result, charging,
                   env, discovery, runResult, stats, pollers, can, histVars>>
    /\ UNCHANGED <<gauges, registered, calls, gauges0, normVars, regVars>>

\* return eg.Wait(): every task has returned
RunReturns ==
    /\ ~Exited
    /\ runResult = "running"
    /\ discovery # "pending"
    /\ \A v \in vehicles : pc[v] = "done"
    /\ stats.pc = "done"
    /\ \A p \in DOMAIN pollers : pollers[p].pc = "done"
    /\ listener # "serving"
    /\ shutdown = "done"
    /\ runResult' = firstErr
    /\ UNCHANGED <<vehicles, pc, data, prevData, delay, result, charging,
                   cancelled, firstErr, listener, env, discovery, stats, pollers, can, shutdown,
                   histVars>>
    /\ UNCHANGED <<gauges, registered, calls, gauges0, normVars, regVars>>

NextRun ==
    \/ Discover
    \/ DiscoveryFails
    \/ \E v \in vehicles : FetchOk(v)
    \/ \E v \in vehicles : FetchFail(v)
    \/ \E v \in vehicles : StopSkip(v)
    \/ \E v \in vehicles : StopStatusFail(v)
    \/ \E v \in vehicles : StopSessions(v)
    \/ \E v \in vehicles : StartSkip(v)
    \/ \E v \in vehicles : SetCharging(v)
    \/ \E v \in vehicles : WaitTimer(v)
    \/ \E v \in vehicles : WaitCancelled(v)
    \/ ListenerFails
    \/ StatsPoll
    \/ StatsTimer
    \/ StatsCancelled
    \/ Shutdown
    \/ RunReturns

SpecRun == InitRun /\ [][NextRun]_vars

----------------------------------------------------------------------------
(* The background pollers of run(): sysmetrics.Monitor and the car-server  *)
(* loop, among the other tasks of the errgroup. The gauges sysmetrics sets *)
(* live in its own map, counters, under names starting by "sysmetrics:".   *)

Pollers == {"sysmetrics", "carserver"}

\* a poller: its position, the failures its last pass logged, what it returned
Poller(at, logged, res) == [pc |-> at, logged |-> logged, result |-> res]

\* the monitors one pass of sysmetrics.Monitor calls
SensorMonitors == {"monitorLMSensors", "monitorArmTemp", "monitorNAS"}

\* the failures of pollCarServer: of http.Get, a status other than 200, of
\* the decoding of the body
CarServerErrors == {"Get", "Status", "Decode"}

\* the body the car server answers with, decoded into out
CarServerBodies == {Map(<<Entry("speed", Num(3))>>)}

\* what a poller returns from its select: sysmetrics.Monitor ctx.Err(), the
\* car-server loop nil
CancelResult(p) == IF p = "sysmetrics" THEN "context canceled" ELSE "nil"

\* run() with an account of one vehicle, or without a Tesla client at all
\* (r.client == nil: no discovery task), and its two pollers
InitTasks ==
    /\ vehicles = {}
    /\ pc = <<>>
    /\ data = <<>>
    /\ prevData = <<>>
    /\ delay = <<>>
    /\ result = <<>>
    /\ charging = FALSE
    /\ cancelled = FALSE
    /\ firstErr = "nil"
    /\ listener = "serving"
    /\ env = Surroundings({1}, "brief", FALSE, 0)
    /\ discovery \in {"pending", "none"}
    /\ runResult = "running"
    /\ stats = StatsLoop("poll", "nil", "running")
    /\ pollers = [p \in Pollers |-> Poller("poll", {}, "running")]
    /\ can = <<>>
    /\ shutdown = "waiting"
    /\ polls = <<>>
    /\ portHist = <<>>
    /\ qualCount = <<>>
    /\ statusCount = <<>>
    /\ stops = <<>>
    /\ startLog = <<>>
    /\ sessions = <<>>
    /\ errs = <<>>
    /\ gauges = <<>>
    /\ registered = <<>>
    /\ calls = <<>>
    /\ gauges0 = <<>>
    /\ input = Nil
    /\ prefix = "tesla"
    /\ count = 0
    /\ output = <<>>
    /\ phase = "run"
    /\ mu = 0
    /\ rpc = <<>>
    /\ args = <<>>
    /\ found = <<>>
    /\ everSet = {}

\* one pass of sysmetrics.Monitor up to its select: each monitor that fails
\* is logged
PollSensors ==
    /\ ~Exited
    /\ "sysmetrics" \in DOMAIN pollers
    /\ pollers["sysmetrics"].pc = "poll"
    /\ \E failing \in SUBSET SensorMonitors :
         pollers' = [pollers EXCEPT
                        !["sysmetrics"] = Poller("wait", failing, "running")]
    /\ UNCHANGED <<vehicles, pc, data, prevData, delay, result, charging,
                   cancelled, firstErr, listener, env, discovery, runResult,
                   stats, shutdown, histVars>>
    /\ UNCHANGED <<gauges, registered, calls, gauges0, normVars, regVars>>
    /\ UNCHANGED can

\* a car-server loop that returns the error of pollCarServer: a mutation of
\* PollCarServer
PollCarServerReturning ==
    /\ ~Exited
    /\ "carserver" \in DOMAIN pollers
    /\ pollers["carserver"].pc = "poll"
    /\ \E err \in CarServerErrors :
         /\ pollers' = [pollers EXCEPT
                           !["carserver"] = Poller("done", {err}, err)]
         /\ TaskReturns(err)
    /\ UNCHANGED <<vehicles, pc, data, prevData, delay, result, charging,
                   listener, env, discovery, runResult, stats, shutdown,
                   histVars>>
    /\ UNCHANGED <<gauges, registered, calls, gauges0, normVars, regVars>>
    /\ UNCHANGED can

\* one pass of the car-server loop up to its select: pollCarServer fails and
\* the error is logged, or it hands the decoded body to processCounter
PollCarServer ==
    /\ ~Exited
    /\ "carserver" \in DOMAIN pollers
    /\ pollers["carserver"].pc = "poll"
    /\ \/ \E err \in CarServerErrors :
            /\ pollers' = [pollers EXCEPT
                              !["carserver"] = Poller("wait", {err}, "running")]
            /\ UNCHANGED <<gauges, registered, calls>>
       \/ \E out \in CarServerBodies :
            LET reg == processCounter(Registry(gauges, registered, <<>>),
                                      "carserver", out).reg
            IN  /\ gauges' = reg.gauges
                /\ registered' = reg.registered
                /\ calls' = calls
                /\ pollers' = [pollers EXCEPT
                                  !["carserver"] = Poller("wait", {}, "running")]
    /\ UNCHANGED <<vehicles, pc, data, prevData, delay, result, charging,
                   cancelled, firstErr, listener, env, discovery, runResult,
                   stats, shutdown, histVars>>
    /\ UNCHANGED <<gauges0, normVars, regVars>>
    /\ UNCHANGED can

\* a poller's select: the ticker or the timer fires
PollerTimer(p) ==
    /\ ~Exited
    /\ pollers[p].pc = "wait"
    /\ pollers' = [pollers EXCEPT ![p] = Poller("poll", {}, "running")]
    /\ UNCHANGED <<vehicles, pc, data, prevData, delay, result, charging,
                   cancelled, firstErr, listener, env, discovery, runResult,
                   stats, shutdown, histVars>>
    /\ UNCHANGED <<gauges, registered, calls, gauges0, normVars, regVars>>
    /\ UNCHANGED can

\* a poller's select: case <-ctx.Done()
PollerCancelled(p) ==
    /\ ~Exited
    /\ pollers[p].pc = "wait"
    /\ cancelled
    /\ pollers' = [pollers EXCEPT ![p] = Poller("done", {}, CancelResult(p))]
    /\ TaskReturns(CancelResult(p))
    /\ UNCHANGED <<vehicles, pc, data, prevData, delay, result, charging,
                   listener, env, discovery, runResult, stats, shutdown,
                   histVars>>
    /\ UNCHANGED <<gauges, registered, calls, gauges0, normVars, regVars>>
    /\ UNCHANGED can

NextTasks ==
    \/ NextRun
    \/ PollSensors
    \/ PollCarServer
    \/ \E p \in DOMAIN pollers : PollerTimer(p)
    \/ \E p \in DOMAIN pollers : PollerCancelled(p)

SpecTasks == InitTasks /\ [][NextTasks]_vars

----------------------------------------------------------------------------
(* The statistics loop by itself, with the responses of GetSessions and    *)
(* the listener whose failure cancels ctx                                  *)

\* run() without a Tesla client, its pollers left aside; the passes of the
\* statistics loop are recorded in output
InitStats ==
    /\ vehicles = {}
    /\ pc = <<>>
    /\ data = <<>>
    /\ prevData = <<>>
    /\ delay = <<>>
    /\ result = <<>>
    /\ charging = FALSE
    /\ cancelled = FALSE
    /\ firstErr = "nil"
    /\ listener = "serving"
    /\ env = Surroundings({}, "months", TRUE, 0)
    /\ discovery = "none"
    /\ runResult = "running"
    /\ stats = StatsLoop("poll", "nil", "running")
    /\ pollers = <<>>
    /\ can = <<>>
    /\ shutdown = "waiting"
    /\ polls = <<>>
    /\ portHist = <<>>
    /\ qualCount = <<>>
    /\ statusCount = <<>>
    /\ stops = <<>>
    /\ startLog = <<>>
    /\ sessions = <<>>
    /\ errs = <<>>
    /\ gauges = <<>>
    /\ registered = <<>>
    /\ calls = <<>>
    /\ gauges0 = <<>>
    /\ input = Nil
    /\ prefix = "tesla"
    /\ count = 0
    /\ output = <<>>
    /\ phase = "run"
    /\ mu = 0
    /\ rpc = <<>>
    /\ args = <<>>
    /\ found = <<>>
    /\ everSet = {}

NextStats ==
    \/ StatsPoll
    \/ StatsTimer
    \/ StatsCancelled
    \/ ListenerFails
    \/ Shutdown
    \/ RunReturns

SpecStats == InitStats /\ [][NextStats]_vars


----------------------------------------------------------------------------
(* The triggers of the monitoring loop, stated on the histories            *)

\* poll i of vehicle v has run past its start decision: a later poll was
\* fetched, or the loop is past the start trigger of poll i and did not
\* return from the stop trigger before it
Decided(v, i) ==
    \/ i < polls[v]
    \/ /\ i = polls[v]
       /\ \/ pc[v] \in {"flag", "wait", "fetch"}
          \/ pc[v] = "done" /\ result[v] \notin {"UserStatus", "StopSession"}

\* the port was closed in the snapshot of poll i-1 and is open in poll i's
RisingEdge(v, i) == i > 1 /\ ~portHist[v][i - 1] /\ portHist[v][i]

\* the start attempts made at poll i
Attempts(v, i) == {j \in 1..Len(startLog[v]) : startLog[v][j].poll = i}

\* the startSession calls made at poll i
SessionCalls(v, i) == {j \in 1..Len(sessions[v]) : sessions[v][j].poll = i}

\* C1: monitorVehicle makes a start attempt at poll i exactly when i is not
\* the first poll and the charge port was closed in the snapshot of poll
\* i-1 and is open in the snapshot of poll i, and then one attempt: the
\* first poll makes none, a port that stays open makes one, and the ports
\* closed, open, open, closed, open make two, at the second and fifth poll.
C1_StartOnRisingEdge ==
    \A v \in vehicles :
        /\ \A i \in 1..polls[v] :
              Cardinality(Attempts(v, i)) =
                  IF Decided(v, i) /\ RisingEdge(v, i) THEN 1 ELSE 0
        /\ Attempts(v, 1) = {}
        /\ \A i \in 2..polls[v] :
              portHist[v][i - 1] /\ portHist[v][i] => Attempts(v, i) = {}
        /\ portHist[v] = <<FALSE, TRUE, TRUE, FALSE, TRUE>> /\ Decided(v, 5)
              => [j \in 1..Len(startLog[v]) |-> startLog[v][j].poll] = <<2, 5>>

C1_Witness ==
    /\ 1 \in vehicles
    /\ portHist[1] = <<FALSE, TRUE, TRUE, FALSE, TRUE>>
    /\ pc[1] = "wait"
    /\ [j \in 1..Len(startLog[1]) |-> startLog[1][j].poll] = <<2, 5>>

\* a snapshot with chargingState Complete and a pilot current above 1
Qualifies(d) ==
    /\ d.ChargeState.ChargingState = "Complete"
    /\ d.ChargeState.ChargerPilotCurrent.t = "num"
    /\ d.ChargeState.ChargerPilotCurrent.n > 1

\* C2: the stop trigger is level-triggered: the user-status queries made
\* for a vehicle are as many as its snapshots fetched so far with
\* chargingState Complete and pilot current above 1, whatever the snapshot
\* before each of them was (less the one of a poll whose stop trigger has
\* yet to run), so k qualifying polls in a row make k queries and a poll
\* that does not qualify makes none.
C2_StopLevelTriggered ==
    \A v \in vehicles :
        statusCount[v] =
            qualCount[v] - IF pc[v] = "stop" /\ Qualifies(data[v][1]) THEN 1 ELSE 0

C2_Witness ==
    /\ 1 \in vehicles
    /\ polls[1] = 3
    /\ qualCount[1] = 3
    /\ statusCount[1] = 3
    /\ pc[1] = "wait"

\* C3: a poll with a rising edge of the charge port at a position within
\* 20 m of the registered charger makes exactly one startSession call, to
\* that charger's device id; a rising edge farther away makes none, and so
\* does a poll without a rising edge; a closed port followed by an open
\* port at the charger's coordinates makes exactly one call.
C3_OneSessionPerEdgeInRange ==
    \A v \in vehicles :
        /\ \A i \in 1..polls[v] :
              IF Decided(v, i) /\ RisingEdge(v, i)
              THEN \E j \in Attempts(v, i) :
                      IF RefDistance(startLog[v][j].at) < 2000
                      THEN /\ Cardinality(SessionCalls(v, i)) = 1
                           /\ \A c \in SessionCalls(v, i) :
                                 sessions[v][c].DeviceID = 1947511
                      ELSE SessionCalls(v, i) = {}
              ELSE SessionCalls(v, i) = {}
        /\ \A j \in 1..Len(startLog[v]) :
              startLog[v][j].poll = polls[v] /\ data[v] # <<>>
                  => startLog[v][j].at = LatLng(data[v][1].DriveState.Latitude,
                                                data[v][1].DriveState.Longitude)
        /\ (/\ portHist[v] = <<FALSE, TRUE>>
            /\ Decided(v, 2)
            /\ data[v] # <<>>
            /\ data[v][1].DriveState.Latitude = 47630007
            /\ data[v][1].DriveState.Longitude = -122133969)
              => sessions[v] = <<[poll |-> 2, DeviceID |-> 1947511]>>

C3_Witness ==
    /\ 1 \in vehicles
    /\ portHist[1] = <<FALSE, TRUE>>
    /\ pc[1] = "wait"
    /\ data[1][1].DriveState.Latitude = 47630007
    /\ data[1][1].DriveState.Longitude = -122133969
    /\ sessions[1] = <<[poll |-> 2, DeviceID |-> 1947511]>>

----------------------------------------------------------------------------
(* SpecScan: startNearbyCharging over a registry of several chargers.      *)
(* knownChargers is a package variable; here it is any list of chargers at *)
(* distinct sites around the registered one.                               *)

\* Most chargers in the registry.
MaxChargers == 3

\* the sites: the registered charger's, and four near it
ScanSites ==
    <<LatLng(47630007, -122133969), LatLng(47630007, -122133969 + 150),
      LatLng(47630007 + 100, -122133969), LatLng(47630007, -122133969 + 268),
      LatLng(47630007, -122133969 + 400)>>

ScanCharger(i) ==
    ChargePointCharger(IF i = 1 THEN 1947511 ELSE 100 + i, ScanSites[i])

RECURSIVE ChargerLists(_)
\* the registries of n chargers at distinct sites
ChargerLists(n) ==
    IF n = 0 THEN {<<>>}
    ELSE {Append(l, ScanCharger(i)) :
            l \in ChargerLists(n - 1), i \in {1, 2, 4, 5}}

ScanInputs ==
    {[chargers |-> l, at |-> ScanSites[p]] :
        l \in {l \in UNION {ChargerLists(n) : n \in 0..MaxChargers} :
                 \A i, j \in 1..Len(l) : l[i] = l[j] => i = j},
        p \in {1, 2, 5}}

\* a result of startNearbyCharging: the StartSession calls and the error
Started(ids, err) == [started |-> ids, err |-> err]

RECURSIVE rangeChargersAll(_, _, _)
\* the loop without the return: every charger in range is started
rangeChargersAll(chargers, at, ok) ==
    IF chargers = <<>> THEN Started(<<>>, "nil")
    ELSE LET rest == rangeChargersAll(Tail(chargers), at, ok)
         IN  IF InRange(Head(chargers), at)
             THEN Started(<<Head(chargers).DeviceID>> \o rest.started,
                          IF ok THEN rest.err ELSE "StartSession")
             ELSE rest

RECURSIVE rangeChargers(_, _, _)
\* for _, charger := range chargers { if charger.DistanceInMeters(latlng) < 20
\* { return charger.Start(ctx, r) } }; return nil
rangeChargers(chargers, at, ok) ==
    IF chargers = <<>> THEN Started(<<>>, "nil")
    ELSE IF InRange(Head(chargers), at)
         THEN Started(<<Head(chargers).DeviceID>>,
                      IF ok THEN "nil" ELSE "StartSession")
         ELSE rangeChargers(Tail(chargers), at, ok)

InitScan ==
    /\ input \in ScanInputs
    /\ output = <<>>
    /\ phase = "input"
    /\ RegistryIdle

\* r.startNearbyCharging(ctx, data.DriveState), the StartSession call of the
\* charger it finds succeeding or failing
ScanChargers ==
    /\ phase = "input"
    /\ \E ok \in BOOLEAN :
          output' = <<rangeChargers(input.chargers, input.at, ok)>>
    /\ phase' = "scanned"
    /\ UNCHANGED <<gauges, registered, calls, gauges0, prefix, count, input>>
    /\ UNCHANGED <<regVars, loopVars, histVars>>

NextScan == ScanChargers

SpecScan == InitScan /\ [][NextScan]_vars

\* reference great-circle distances in cm between the sites
SiteCm ==
    <<<<0, 1124, 1112, 2008, 2997>>,
      <<1124, 0, 1581, 884, 1873>>,
      <<1112, 1581, 0, 2296, 3197>>,
      <<2008, 884, 2296, 0, 989>>,
      <<2997, 1873, 3197, 989, 0>>>>

SiteOf(latlng) == CHOOSE i \in 1..Len(ScanSites) : ScanSites[i] = latlng

\* the indices of the chargers within 20 m of the scanned position
Within == {i \in 1..Len(input.chargers) :
             SiteCm[SiteOf(input.chargers[i].LatLng)][SiteOf(input.at)] < 2000}

\* C11: startNearbyCharging starts a session at the first charger, in
\* registration order, within 20 m of the position and at no other, also
\* when several are in range; with no charger in range it makes no call and
\* returns no error.
C11_FirstChargerInRange ==
    phase = "scanned" =>
        /\ Len(output[1].started) <= 1
        /\ Within = {} => output[1] = Started(<<>>, "nil")
        /\ Within # {} =>
              output[1].started =
                 <<input.chargers[CHOOSE i \in Within :
                                     \A j \in Within : i <= j].DeviceID>>

C11_Witness ==
    /\ phase = "scanned"
    /\ Len(input.chargers) = 3
    /\ Within = {2, 3}
    /\ output[1].started = <<input.chargers[2].DeviceID>>

----------------------------------------------------------------------------
(* The charging flag                                                       *)

\* C12 as stated: whenever a loop that fetched a snapshot waits or has
\* ended, the charging flag is whether that snapshot's chargingState is
\* Charging.
C12_FlagAfterEveryFetch ==
    \A v \in vehicles :
        pc[v] \in {"wait", "done"} /\ data[v] # <<>>
            => charging = (data[v][1].ChargeState.ChargingState = "Charging")

\* C12, amended: a loop comes to wait only by the step that sets the
\* charging flag to whether the fetched snapshot's chargingState is
\* Charging, after both triggers and whatever they did, and it fetches
\* again only after waiting; a poll whose trigger returns an error ends the
\* loop and leaves the flag as it was.
C12_FlagSetBeforeWait ==
    [][\A v \in vehicles :
          /\ pc'[v] = "wait" /\ pc[v] # "wait"
                => /\ pc[v] = "flag"
                   /\ charging' = (data[v][1].ChargeState.ChargingState = "Charging")
          /\ pc'[v] = "flag" /\ pc[v] # "flag" => pc[v] = "start"
          /\ pc'[v] = "fetch" /\ pc[v] # "fetch" => pc[v] = "wait"
          /\ pc[v] \in {"stop", "start"} /\ pc'[v] = "done"
                => charging' = charging]_vars

C12_Witness ==
    /\ 1 \in vehicles
    /\ pc[1] = "wait"
    /\ polls[1] = 2
    /\ statusCount[1] = 1
    /\ data[1][1].ChargeState.ChargingState = "Charging"
    /\ charging

\* C13: the charging flag is per vehicle: the flag equals, for every
\* vehicle, whether the latest snapshot of that vehicle the loop has handled
\* was Charging, so a poll of one vehicle does not change what is read for
\* another.
C13_FlagPerVehicle ==
    \A v \in vehicles :
        prevData[v] # <<>>
            => charging = (prevData[v][1].ChargeState.ChargingState = "Charging")

----------------------------------------------------------------------------
(* Errors                                                                  *)

TriggerErrors == {"UserStatus", "StopSession", "StartSession"}

\* C14: when the remote call of a trigger fails (the status query or a
\* stop-session of the stop trigger, the start-session of the start
\* trigger), monitorVehicle returns that error, and a loop that has returned
\* polls no more.
C14_TriggerErrorReturned ==
    [][\A v \in vehicles :
          /\ pc[v] \in {"stop", "start"} /\ errs'[v] # "nil"
                => /\ errs'[v] \in TriggerErrors
                   /\ pc'[v] = "done"
                   /\ result'[v] = errs'[v]
          /\ pc[v] = "done"
                => /\ pc'[v] = "done"
                   /\ result'[v] = result[v]
                   /\ polls'[v] = polls[v]]_vars

C14_Witness ==
    /\ 1 \in vehicles
    /\ pc[1] = "done"
    /\ errs[1] = "StartSession"
    /\ result[1] = "StartSession"
    /\ polls[1] = 2

\* C15: no failure of a start-session or stop-session action is swallowed:
\* the statistics loop that logged a stopCharging failure has returned an
\* error, and so has a vehicle loop whose trigger's call failed.
C15_NoActionFailureSwallowed ==
    /\ stats.logged # "nil" => stats.pc = "done" /\ stats.result # "nil"
    /\ \A v \in vehicles :
          errs[v] \in TriggerErrors => pc[v] = "done" /\ result[v] = errs[v]

\* C16: a failed fetch attempt is followed by another attempt or, the
\* budget over, by the return of that last attempt's error; monitorVehicle
\* then returns it without a trigger evaluated, the charging flag set or the
\* previous snapshot replaced; the triggers run only after an attempt that
\* succeeded.
C16_FetchRetriedThenReturned ==
    [][\A v \in vehicles :
          pc[v] = "fetch" =>
              /\ pc'[v] \in {"fetch", "stop", "done"}
              /\ pc'[v] = "stop" => data'[v] # <<>> /\ errs'[v] = "nil"
              /\ pc'[v] = "done"
                    => /\ errs'[v] \in {"Do", "status", "unmarshal"}
                       /\ result'[v] = errs'[v]
              /\ pc'[v] \in {"fetch", "done"}
                    => /\ charging' = charging
                       /\ prevData'[v] = prevData[v]
                       /\ statusCount'[v] = statusCount[v]
                       /\ startLog'[v] = startLog[v]
                       /\ sessions'[v] = sessions[v]]_vars

C16_Witness ==
    /\ 1 \in vehicles
    /\ pc[1] = "done"
    /\ result[1] = "status"
    /\ polls[1] = 1
    /\ prevData[1] # <<>>
    /\ prevData[1][1].ChargeState.ChargingState = "Charging"
    /\ charging

\* C17: a business error, such as a rejected vehicle request, is returned
\* by the retry at once: after an attempt failed with it the loop has
\* returned it, and no further attempt is pending.
C17_BusinessErrorNotRetried ==
    \A v \in vehicles :
        errs[v] = "status" => pc[v] = "done" /\ result[v] = "status"

\* C18: a body that cannot be decoded is not fetched again: after
\* getVehicleData failed to unmarshal, the loop has returned the decode
\* error, and no further attempt is pending.
C18_DecodeErrorNotRetried ==
    \A v \in vehicles :
        errs[v] = "unmarshal" => pc[v] = "done" /\ result[v] = "unmarshal"

----------------------------------------------------------------------------
(* The supervisor                                                          *)

\* a task of the supervisor has returned an error
TaskFailed ==
    \/ \E v \in vehicles : pc[v] = "done" /\ result[v] # "nil"
    \/ discovery = "failed"
    \/ listener = "failed"

\* the error the process ends with: what run() returned, or the error the
\* shutdown task gave to log.Fatal
OverallFailure == IF Exited THEN "Shutdown" ELSE runResult

\* C19 as stated: once a task has returned an error the cancellation
\* signal is raised and the first error is kept, a cancelled loop that waits
\* returns without error, and the supervisor ends with that first error and
\* no other.
C19_FirstErrorIsOverallFailure ==
    /\ TaskFailed => cancelled /\ firstErr # "nil"
    /\ \A v \in vehicles :
          pc[v] = "done" /\ result[v] = "nil" => cancelled
    /\ OverallFailure \in {"running", firstErr}

\* C19, amended: once a task has returned an error the cancellation signal
\* is raised and stays, the first error is kept and no later one replaces
\* it, a loop returns without error only when cancelled, and run() returns
\* only after every loop has, and then that first error; the process ends
\* otherwise only by the shutdown task's log.Fatal, after cancellation.
C19_FirstErrorReturnedOrFatal ==
    [][/\ TaskFailed' => cancelled' /\ firstErr' # "nil"
       /\ cancelled => cancelled'
       /\ firstErr # "nil" => firstErr' = firstErr
       /\ \A v \in vehicles :
             pc[v] # "done" /\ pc'[v] = "done" /\ firstErr = "nil"
                 => firstErr' = result'[v] /\ result'[v] # "nil"
       /\ \A v \in vehicles :
             pc'[v] = "done" /\ result'[v] = "nil" => cancelled
       /\ runResult' # "running"
             => /\ runResult' = firstErr'
                /\ firstErr' # "nil"
                /\ \A v \in vehicles : pc'[v] = "done"
       /\ Exited' => cancelled' /\ runResult' = "running"]_vars

C19_Witness ==
    /\ vehicles = {1, 2}
    /\ runResult = "UserStatus"
    /\ result[1] = "UserStatus"
    /\ result[2] = "nil"
    /\ listener = "closed"
    /\ stats.pc = "done"

\* C20: a vehicle loop that returns an error ends alone: the step leaves the
\* cancellation signal as it was and every other loop where it was.
C20_LoopErrorEndsOnlyThatLoop ==
    [][\A v \in vehicles :
          pc[v] # "done" /\ pc'[v] = "done" /\ result'[v] # "nil"
              => /\ cancelled' = cancelled
                 /\ \A w \in vehicles \ {v} : pc'[w] = pc[w]]_vars


----------------------------------------------------------------------------
(* SpecLive: the vehicle loops of run() under cancellation, with the       *)
(* scheduling the code gives them: every step of a loop completes (each    *)
(* remote call returns within its timeout), and backoff.Retry gives up     *)
(* once its MaxElapsedTime of one minute is over.                          *)

\* the vehicles whose loops are scheduled
LiveFleet == {1, 2}

\* backoff.Retry returns the error of a failed attempt: the budget is over
FetchGiveUp(v) == v \in vehicles /\ FetchFail(v) /\ pc'[v] = "done"

\* a step of the loop of v other than a fetch attempt
LoopStep(v) ==
    /\ v \in vehicles
    /\ \/ StopSkip(v)
       \/ StopStatusFail(v)
       \/ StopSessions(v)
       \/ StartSkip(v)
       \/ SetCharging(v)
       \/ WaitTimer(v)
       \/ WaitCancelled(v)

NextLive ==
    \/ Discover
    \/ DiscoveryFails
    \/ \E v \in vehicles : FetchOk(v)
    \/ \E v \in vehicles : FetchFail(v)
    \/ \E v \in vehicles : StopSkip(v)
    \/ \E v \in vehicles : StopStatusFail(v)
    \/ \E v \in vehicles : StopSessions(v)
    \/ \E v \in vehicles : StartSkip(v)
    \/ \E v \in vehicles : SetCharging(v)
    \/ \E v \in vehicles : WaitTimer(v)
    \/ \E v \in vehicles : WaitCancelled(v)
    \/ ListenerFails

Scheduling ==
    /\ WF_vars(Discover \/ DiscoveryFails)
    /\ \A v \in LiveFleet : WF_vars(LoopStep(v))
    /\ \A v \in LiveFleet : WF_vars(FetchGiveUp(v))

SpecLive == InitRun /\ [][NextLive]_vars /\ Scheduling

C22_CancellationWinsTie ==
    [][\A v \in vehicles :
          pc[v] = "wait" /\ cancelled => pc'[v] \in {"wait", "done"}]_vars


----------------------------------------------------------------------------
(* One loop per vehicle                                                    *)

\* C23: every discovered vehicle has one monitoring loop, started once, and
\* its polls are sequential: a fetch starts only from the loop's wait, the
\* snapshot is written only by the loop's fetch, and the previous snapshot
\* is written only by the loop's own step after its triggers, from the
\* loop's own snapshot.
C23_OneSequentialLoopPerVehicle ==
    [][/\ DOMAIN pc = vehicles /\ DOMAIN prevData = vehicles
       /\ discovery # "pending" => vehicles' = vehicles
       /\ \A v \in vehicles :
             /\ pc'[v] = "fetch" /\ pc[v] # "fetch" => pc[v] = "wait"
             /\ data'[v] # data[v] => pc[v] = "fetch"
             /\ prevData'[v] # prevData[v]
                   => /\ pc[v] = "flag" /\ pc'[v] = "wait"
                      /\ prevData'[v] = data[v]]_vars

C23_Witness ==
    /\ vehicles = {1, 2}
    /\ pc[1] = "stop" /\ pc[2] = "wait"
    /\ prevData[1] # <<>> /\ prevData[2] # <<>>
    /\ prevData[1] # prevData[2]
    /\ data[1] # prevData[1]


----------------------------------------------------------------------------
(* SpecStop: stopCharging over the answers of UserStatus: a session on up  *)
(* to MaxStations stations, and the StopSession call that fails, if any.   *)

\* Most stations a user status reports.
MaxStations == 3

RECURSIVE StationLists(_)
\* the lists of n station device ids
StationLists(n) ==
    IF n = 0 THEN {<<>>}
    ELSE {Append(l, id) : l \in StationLists(n - 1), id \in {1947511, 1947512}}

StopInputs ==
    {[status |-> UserStatus(id, l), failAt |-> f] :
        id \in {77, 78},
        l \in UNION {StationLists(n) : n \in 0..MaxStations},
        f \in 0..MaxStations}

InitStop ==
    /\ input \in {i \in StopInputs : i.failAt <= Len(i.status.Charging.Stations)}
    /\ output = <<>>
    /\ phase = "input"
    /\ RegistryIdle

\* r.stopCharging(ctx): UserStatus fails, or it answers and the stations
\* are stopped in turn up to the call that fails
StopStations ==
    /\ phase = "input"
    /\ \E answered \in BOOLEAN :
          output' = IF answered
                    THEN <<stopCharging(input.status, input.failAt)>>
                    ELSE <<[stopped |-> <<>>, err |-> "UserStatus"]>>
    /\ phase' = "stopped"
    /\ UNCHANGED <<gauges, registered, calls, gauges0, prefix, count, input>>
    /\ UNCHANGED <<regVars, loopVars, histVars>>

NextStop == StopStations

SpecStop == InitStop /\ [][NextStop]_vars

\* C24: when the stop trigger fires and the status query is answered, a
\* stop-session call carrying the reported session id is issued for every
\* station the answer reports.
C24_StopCallForEveryStation ==
    phase = "stopped" /\ output[1].err # "UserStatus" =>
        \A i \in 1..Len(input.status.Charging.Stations) :
            \E k \in 1..Len(output[1].stopped) :
                output[1].stopped[k] =
                    [SessionID |-> input.status.Charging.SessionID,
                     DeviceID |-> input.status.Charging.Stations[i]]


----------------------------------------------------------------------------
(* The cycle of a vehicle loop                                             *)

\* the steps of a cycle, each as the positions it leads from and to
CycleSteps ==
    {<<"fetch", "stop">>, <<"stop", "start">>, <<"start", "flag">>,
     <<"flag", "wait">>, <<"wait", "fetch">>,
     <<"fetch", "done">>, <<"stop", "done">>, <<"start", "done">>,
     <<"wait", "done">>}

\* registry g holds, for every leaf of snapshot d that resolves to a number,
\* that number under the leaf's key
Written(g, d) ==
    \A l \in {m \in LeavesOf("tesla", Raw(d), <<>>) : Resolved(m.v) # <<>>} :
        l.key \in DOMAIN g /\ g[l.key] = Resolved(l.v)[1]

\* C25: a cycle runs fetch, metrics, triggers, wait in this order: the step
\* that yields a snapshot leaves its values in the registry before the stop
\* trigger; the triggers see that snapshot; the loop waits only after them,
\* for the delay computed from that snapshot, which the wait does not change.
C25_CycleOrder ==
    [][\A v \in vehicles :
          /\ pc'[v] # pc[v] => <<pc[v], pc'[v]>> \in CycleSteps
          /\ pc[v] = "fetch" /\ pc'[v] = "stop"
                => data'[v] # <<>> /\ Written(gauges', data'[v][1])
          /\ pc[v] \in {"stop", "start", "flag", "wait"} => data'[v] = data[v]
          /\ pc[v] = "flag" /\ pc'[v] = "wait"
                => delay'[v] = pollTime(data[v][1])
          /\ pc[v] # "flag" => delay'[v] = delay[v]]_vars

C25_Witness ==
    /\ 1 \in vehicles
    /\ pc[1] = "wait"
    /\ polls[1] = 2
    /\ portHist[1] = <<FALSE, TRUE>>
    /\ statusCount[1] = 2
    /\ delay[1] = standbyPollTime
    /\ Written(gauges, data[1][1])


----------------------------------------------------------------------------
(* SpecNAS: sysmetrics.parseNASOutput over the output of qmicli, given as  *)
(* its lines (strings.Split(s, "\n") of the trimmed text). A value is held *)
(* in thousandths.                                                         *)

\* Most lines of an output.
MaxLines == 3

\* the characters \w matches
WordChars ==
    LET w == "ABCDEFGHIJKLMNOPQRSTUVWXYZabcdefghijklmnopqrstuvwxyz0123456789_"
    IN  {SubSeq(w, i, i) : i \in 1..Len(w)}

\* s[a:b+1], cut at the end of s
Mid(s, a, b) ==
    IF a > b \/ a > Len(s) THEN ""
    ELSE SubSeq(s, a, IF b > Len(s) THEN Len(s) ELSE b)

RECURSIVE TrimSpace(_)
\* strings.TrimSpace, on the blanks and tabs of the inputs
TrimSpace(s) ==
    IF Len(s) > 0 /\ CharAt(s, 1) \in {" ", "\t"}
    THEN TrimSpace(Mid(s, 2, Len(s)))
    ELSE IF Len(s) > 0 /\ CharAt(s, Len(s)) \in {" ", "\t"}
         THEN TrimSpace(Mid(s, 1, Len(s) - 1))
         ELSE s

HasPrefix(s, p) == Len(s) >= Len(p) /\ Mid(s, 1, Len(p)) = p

HasSuffix(s, p) == Len(s) >= Len(p) /\ Mid(s, Len(s) - Len(p) + 1, Len(s)) = p

RECURSIVE RunLength(_, _, _)
\* the length of the longest run of characters of set cs in s from i on
RunLength(s, i, cs) ==
    IF i <= Len(s) /\ CharAt(s, i) \in cs THEN 1 + RunLength(s, i + 1, cs) ELSE 0

\* \d+.?\d+ with two digits at least
valuePattern(s, p, a, dot, b) ==
    /\ a >= 1 /\ b >= 1
    /\ a <= RunLength(s, p, DOMAIN Digits)
    /\ p + a + dot - 1 <= Len(s)
    /\ b <= RunLength(s, p + a + dot, DOMAIN Digits)

\* (\w+): '(-?\d+.?\d+) (dBm?) matched in s from position i: <<>> when it
\* does not match, else the three submatches. \w+ runs to the colon; of the
\* ways \d+.?\d+ can match, the first in the order of the greedy operators
\* is taken (most first digits, then the optional character, then most last
\* digits).
dbRegexpAt(s, i) ==
    LET n    == RunLength(s, i, WordChars)
        p0   == i + n + 3
        sign == IF p0 <= Len(s) /\ CharAt(s, p0) = "-" THEN 1 ELSE 0
        p    == p0 + sign
        ways == {w \in (1..Len(s)) \X {0, 1} \X (1..Len(s)) :
                    /\ valuePattern(s, p, w[1], w[2], w[3])
                    /\ Mid(s, p + w[1] + w[2] + w[3],
                              p + w[1] + w[2] + w[3] + 2) = " dB"}
        first == CHOOSE w \in ways : \A x \in ways :
                    \/ w[1] > x[1]
                    \/ w[1] = x[1] /\ w[2] > x[2]
                    \/ w[1] = x[1] /\ w[2] = x[2] /\ w[3] >= x[3]
        q    == p + first[1] + first[2] + first[3]
    IN  IF n = 0 \/ Mid(s, i + n, i + n + 2) # ": '" \/ ways = {}
        THEN <<>>
        ELSE <<Mid(s, i, i + n - 1), Mid(s, p0, q - 1),
               IF q + 3 <= Len(s) /\ CharAt(s, q + 3) = "m" THEN "dBm" ELSE "dB">>

\* dbRegexp.FindStringSubmatch(line): the leftmost match
dbRegexp(s) ==
    LET starts == {i \in 1..Len(s) : dbRegexpAt(s, i) # <<>>}
    IN  IF starts = {} THEN <<>>
        ELSE dbRegexpAt(s, CHOOSE i \in starts : \A j \in starts : i <= j)

\* strconv.ParseFloat on [+-]?digits[.digits], up to three digits after the
\* point; the other syntax it accepts is not in the alphabet of the inputs
ParseDecimal(s) ==
    LET signed == Len(s) > 0 /\ CharAt(s, 1) \in {"+", "-"}
        start  == IF signed THEN 2 ELSE 1
        a      == RunLength(s, start, DOMAIN Digits)
        dot    == IF start + a <= Len(s) /\ CharAt(s, start + a) = "." THEN 1 ELSE 0
        b      == RunLength(s, start + a + dot, DOMAIN Digits)
        whole  == ParseDigits(Mid(s, start, start + a - 1), 1, 0).f
        frac   == ParseDigits(Mid(s, start + a + dot, start + a + dot + b - 1), 1, 0).f
        scale  == IF b = 0 THEN 1000 ELSE IF b = 1 THEN 100 ELSE IF b = 2 THEN 10 ELSE 1
        mag    == 1000 * whole + scale * frac
    IN  IF a + b = 0 \/ b > 3 \/ start + a + dot + b # Len(s) + 1
        THEN [ok |-> FALSE, f |-> 0]
        ELSE [ok |-> TRUE,
              f  |-> IF signed /\ CharAt(s, 1) = "-" THEN 0 - mag ELSE mag]

RECURSIVE parseLines(_, _, _)
\* the loop over the lines, with the category and the map so far
parseLines(lines, category, out) ==
    IF lines = <<>> THEN out
    ELSE LET line    == TrimSpace(Head(lines))
             cat     == IF HasSuffix(line, ":")
                        THEN Mid(line, 1, Len(line) - 1) ELSE category
             matches == dbRegexp(line)
             value   == ParseDecimal(matches[2])
             key     == cat \o ":" \o matches[1] \o "_" \o matches[3]
         IN  IF HasPrefix(line, "[") THEN parseLines(Tail(lines), category, out)
             ELSE IF matches = <<>> \/ ~value.ok
                  THEN parseLines(Tail(lines), cat, out)
                  ELSE parseLines(Tail(lines), cat,
                                  [k \in DOMAIN out \cup {key} |->
                                      IF k = key THEN value.f ELSE out[k]])

parseNASOutput(lines) == parseLines(lines, "", <<>>)

\* the lines of the outputs
NASLines ==
    {"[/dev/cdc-wdm0] Successfully got signal info", "LTE:", "WCDMA:",
     "\tRSSI: '-64 dBm'", "\tRSRQ: '-12 dB'", "\tSNR: '17.4 dB'",
     "\tRSRQ: '-9 dB'", "Successfully got signal info"}

RECURSIVE LineLists(_)
\* the outputs of n lines
LineLists(n) ==
    IF n = 0 THEN {<<>>}
    ELSE {Append(l, t) : l \in LineLists(n - 1), t \in NASLines}

InitNAS ==
    /\ input \in UNION {LineLists(n) : n \in 0..MaxLines}
    /\ output = <<>>
    /\ phase = "input"
    /\ RegistryIdle

\* parseNASOutput(string(out))
ParseNAS ==
    /\ phase = "input"
    /\ output' = <<parseNASOutput(input)>>
    /\ phase' = "parsed"
    /\ UNCHANGED <<gauges, registered, calls, gauges0, prefix, count, input>>
    /\ UNCHANGED <<regVars, loopVars, histVars>>

NextNAS == ParseNAS

SpecNAS == InitNAS /\ [][NextNAS]_vars

\* what each line of the outputs is: a category header, a reading with its
\* name, unit and value in thousandths, or neither
Headers == ("LTE:" :> "LTE") @@ ("WCDMA:" :> "WCDMA")

Readings ==
    ("\tRSSI: '-64 dBm'" :> [name |-> "RSSI", unit |-> "dBm", value |-> -64000]) @@
    ("\tRSRQ: '-12 dB'" :> [name |-> "RSRQ", unit |-> "dB", value |-> -12000]) @@
    ("\tSNR: '17.4 dB'" :> [name |-> "SNR", unit |-> "dB", value |-> 17400]) @@
    ("\tRSRQ: '-9 dB'" :> [name |-> "RSRQ", unit |-> "dB", value |-> -9000])

\* the category of line i: the name of the last header before it
CategoryAt(lines, i) ==
    LET before == {j \in 1..(i - 1) : lines[j] \in DOMAIN Headers}
    IN  Headers[lines[CHOOSE j \in before : \A k \in before : k <= j]]

\* the readings of the lines that follow a header, each with its key
Followers(lines) ==
    {i \in 1..Len(lines) :
        /\ lines[i] \in DOMAIN Readings
        /\ \E j \in 1..(i - 1) : lines[j] \in DOMAIN Headers}

KeyAt(lines, i) ==
    CategoryAt(lines, i) \o ":" \o Readings[lines[i]].name \o "_"
        \o Readings[lines[i]].unit

\* C26: parseNASOutput maps every reading NAME: 'VALUE UNIT' that follows a
\* category header to <category>:<NAME>_<UNIT> = VALUE (the last reading of
\* a key gives its value), ignores the lines in brackets and the lines that
\* are no reading, and returns exactly those entries.
C26_NASReadingsMapped ==
    phase = "parsed"
        /\ (\A i \in 1..Len(input) : input[i] \in DOMAIN Readings => i \in Followers(input))
    => /\ DOMAIN output[1] = {KeyAt(input, i) : i \in Followers(input)}
       /\ \A i \in Followers(input) :
             (\A j \in Followers(input) : KeyAt(input, j) = KeyAt(input, i) => j <= i)
                 => output[1][KeyAt(input, i)] = Readings[input[i]].value


----------------------------------------------------------------------------
(* SpecStart: chargepoint.Client.StartSession: the start request, then the *)
(* acknowledgment under backoff.Retry. output holds the requests made with *)
(* their answers, resp.AckID once the start request is answered, and what  *)
(* the call returned.                                                      *)

\* Most acknowledgment requests of a call that are followed.
MaxAcks == 3

\* the ackId values the start request is answered with
AckIDs == {31, 32}

\* the sessionId values the acknowledgment is answered with
SessionIDs == {501, 502}

\* the errors of makeRequest: of the transport, and the network's
\* ErrorResponse
RequestErrors == {"Do", "ErrorResponse"}

\* a request made: its path, the id it carries (DeviceID or AckID), the
\* error makeRequest returned and the id of the response it decoded
Request(path, arg, err, id) == [path |-> path, arg |-> arg, err |-> err, id |-> id]

\* the locals of a call: the requests so far, resp (<<ackId>> when decoded),
\* and the return, <<>> while the call runs
StartCall(requests, resp, ret) == [requests |-> requests, resp |-> resp, ret |-> ret]

\* a call that goes on to the acknowledgment whatever the start request
\* returned
afterStartRequestAlways(err) == "ack"

\* if err := c.makeRequest(... SessionStartPath ...); err != nil { return 0, err }
afterStartRequest(err) == IF err = "nil" THEN "ack" ELSE "returned"

InitStart ==
    /\ input \in {1947511, 1947512}
    /\ output = StartCall(<<>>, <<>>, <<>>)
    /\ phase = "request"
    /\ RegistryIdle

\* c.makeRequest(ctx, AccountEndpoint+SessionStartPath, StartSessionRequest{...}, &resp)
StartRequest ==
    /\ phase = "request"
    /\ \E err \in {"nil"} \cup RequestErrors, ackId \in AckIDs :
         LET made == Request("start", input, err, IF err = "nil" THEN ackId ELSE 0)
         IN  /\ output' = StartCall(Append(output.requests, made),
                                    IF err = "nil" THEN <<ackId>> ELSE <<>>,
                                    IF afterStartRequest(err) = "returned"
                                    THEN <<[id |-> 0, err |-> err]>> ELSE <<>>)
             /\ phase' = afterStartRequest(err)
    /\ UNCHANGED <<gauges, registered, calls, gauges0, prefix, count, input>>
    /\ UNCHANGED <<regVars, loopVars, histVars>>

\* one attempt of the acknowledgment inside backoff.Retry: it is answered
\* and StartSession returns ackResp.SessionID, or it fails and backoff.Retry
\* tries again or, its budget over, returns the error
AckRequest ==
    /\ phase = "ack"
    /\ \E err \in {"nil"} \cup RequestErrors, sid \in SessionIDs, exhausted \in BOOLEAN :
         LET made == Request("ack", IF output.resp = <<>> THEN 0 ELSE output.resp[1],
                             err, IF err = "nil" THEN sid ELSE 0)
             nth  == Len(output.requests)
         IN  /\ err = "nil" => ~exhausted
             /\ err # "nil" /\ nth >= MaxAcks => exhausted
             /\ output' = StartCall(Append(output.requests, made), output.resp,
                                    IF err = "nil"
                                    THEN <<[id |-> sid, err |-> "nil"]>>
                                    ELSE IF exhausted
                                         THEN <<[id |-> 0, err |-> backoffError(err)]>>
                                         ELSE <<>>)
             /\ phase' = IF err = "nil" \/ exhausted THEN "returned" ELSE "ack"
    /\ UNCHANGED <<gauges, registered, calls, gauges0, prefix, count, input>>
    /\ UNCHANGED <<regVars, loopVars, histVars>>

NextStart ==
    \/ StartRequest
    \/ AckRequest

SpecStart == InitStart /\ [][NextStart]_vars

\* C27: StartSession sends the start request once, first, with the device
\* id; acknowledgments are sent only after it was answered, carry its ackId,
\* and each follows a failed one; a failed start request is returned with no
\* acknowledgment sent; the call returns the session id of the acknowledgment
\* that was answered, or the error of the last one when the retry gives up.
C27_StartThenAcknowledge ==
    LET rs == output.requests
    IN  /\ \A i \in 1..Len(rs) :
              /\ rs[i].path = "start" <=> i = 1
              /\ i = 1 => rs[i].arg = input
              /\ i > 1 => /\ rs[1].err = "nil"
                          /\ rs[i].arg = rs[1].id
              /\ i < Len(rs) /\ i > 1 => rs[i].err # "nil"
        /\ phase = "ack" =>
              /\ Len(rs) >= 1
              /\ rs[1].err = "nil"
              /\ Len(rs) > 1 => rs[Len(rs)].err # "nil"
        /\ phase = "returned" =>
              /\ output.ret # <<>>
              /\ output.ret[1].err = rs[Len(rs)].err
              /\ output.ret[1].id = IF Len(rs) > 1 THEN rs[Len(rs)].id ELSE 0
              /\ rs[1].err # "nil" => Len(rs) = 1
              /\ rs[1].err = "nil" => Len(rs) > 1

C27_Witness ==
    /\ phase = "returned"
    /\ Len(output.requests) = 3
    /\ output.requests[2].err = "ErrorResponse"
    /\ output.ret = <<[id |-> 502, err |-> "nil"]>>


----------------------------------------------------------------------------
(* The order of the triggers                                               *)

\* C28: within a poll the stop trigger comes before the start trigger: the
\* stop step makes no start attempt, a stop path that fails returns from
\* monitorVehicle there, the start step is reached only from the stop step,
\* and stop-session calls are made only at the stop step, start attempts and
\* start-session calls only at the start step after it.
C28_StopBeforeStart ==
    [][\A v \in vehicles :
          /\ pc[v] = "stop"
                => /\ startLog'[v] = startLog[v] /\ sessions'[v] = sessions[v]
                   /\ errs'[v] \in {"UserStatus", "StopSession"}
                         => pc'[v] = "done" /\ result'[v] = errs'[v]
          /\ pc'[v] = "start" /\ pc[v] # "start" => pc[v] = "stop"
          /\ stops'[v] # stops[v] /\ stops'[v] # <<>> => pc[v] = "stop"
          /\ startLog'[v] # startLog[v] \/ sessions'[v] # sessions[v]
                => pc[v] = "start"]_vars

\* a snapshot that qualifies for both triggers, at the charger, whose stop
\* path failed at its StopSession call
C28_Witness ==
    /\ 1 \in vehicles
    /\ pc[1] = "done"
    /\ result[1] = "StopSession"
    /\ stopCondition(data[1][1])
    /\ startCondition(prevData[1], data[1][1])
    /\ startNearbyCharging(LatLngFromDegrees(data[1][1].DriveState.Latitude,
                                             data[1][1].DriveState.Longitude)) # <<>>
    /\ Len(stops[1]) = 1
    /\ startLog[1] = <<>>


----------------------------------------------------------------------------
(* SpecPilot: the stop condition over snapshots whose pilot current is a   *)
(* number, absent (null), or of another JSON type.                         *)

\* the charger_pilot_current values of the snapshots
PilotValues == {Nil, Num(0), Num(1), Num(2), Num(32), Str("5"), Bool(TRUE)}

PilotInputs ==
    {VehicleData(locked, Str("P"), portOpen, state, pilot, FALSE,
                 47630007, -122133969) :
        locked \in BOOLEAN, portOpen \in BOOLEAN,
        state \in {StateCharging, StateComplete, "Stopped"},
        pilot \in PilotValues}

InitPilot ==
    /\ input \in PilotInputs
    /\ output = <<>>
    /\ phase = "input"
    /\ RegistryIdle

\* pilotCurrent, _ := ...(float64); if ChargingState == StateComplete &&
\* pilotCurrent > 1
EvaluateStop ==
    /\ phase = "input"
    /\ output' = <<[pilotCurrent |-> pilotCurrent(input),
                    stop |-> stopCondition(input)]>>
    /\ phase' = "evaluated"
    /\ UNCHANGED <<gauges, registered, calls, gauges0, prefix, count, input>>
    /\ UNCHANGED <<regVars, loopVars, histVars>>

NextPilot == EvaluateStop

SpecPilot == InitPilot /\ [][NextPilot]_vars

\* C29: a pilot current that is absent or not a number counts as 0, and the
\* stop trigger then does not fire, Complete or not; it does not fire at a
\* pilot current of exactly 1 either; it fires for a Complete snapshot whose
\* pilot current is a number above 1, and for no other.
C29_PilotCurrentStrictlyAboveOne ==
    phase = "evaluated" =>
        LET pilot == input.ChargeState.ChargerPilotCurrent
        IN  /\ pilot.t # "num" => output[1].pilotCurrent = 0 /\ ~output[1].stop
            /\ pilot = Num(1) => ~output[1].stop
            /\ output[1].stop <=>
                  /\ input.ChargeState.ChargingState = "Complete"
                  /\ pilot.t = "num"
                  /\ pilot.n > 1

C29_Witness ==
    /\ phase = "evaluated"
    /\ input.ChargeState.ChargingState = "Complete"
    /\ input.ChargeState.ChargerPilotCurrent = Str("5")
    /\ output = <<[pilotCurrent |-> 0, stop |-> FALSE]>>


----------------------------------------------------------------------------
(* The keys of one response                                                *)

\* C30: the leaves of one telemetry value that are written have distinct
\* keys, one per path: the count processCounter returns is the number of
\* distinct keys the call wrote, and every written leaf's value is the one
\* the registry holds under its key afterwards.
C30_DistinctPathsDistinctKeys ==
    phase = "normalized" =>
        /\ \A l, m \in ResolvableLeaves : l.at # m.at => l.key # m.key
        /\ count = Cardinality({calls[i].key : i \in 1..Len(calls)})
        /\ \A l \in ResolvableLeaves : gauges[l.key] = WriteOf(l).v


----------------------------------------------------------------------------
(* The snapshot the loop reads                                             *)

\* C31: where monitorVehicle evaluates a trigger, sets the charging flag or
\* computes the delay, data is the snapshot of the attempt that succeeded
\* last, never the nil of a failed attempt; a failed attempt leaves nil in
\* data only while the loop is at its fetch or has returned.
C31_SnapshotNeverNil ==
    \A v \in vehicles :
        /\ pc[v] \in {"stop", "start", "flag"}
              => /\ data[v] # <<>>
                 /\ errs[v] = "nil"
                 /\ portHist[v] # <<>>
                 /\ portHist[v][Len(portHist[v])]
                       = data[v][1].ChargeState.ChargePortDoorOpen
        /\ data[v] = <<>> => pc[v] \in {"fetch", "done"}

\* a failed attempt of the second poll has left nil in data, and the retry
\* goes on
C31_Witness ==
    /\ 1 \in vehicles
    /\ pc[1] = "fetch"
    /\ polls[1] = 1
    /\ prevData[1] # <<>>
    /\ data[1] = <<>>
    /\ errs[1] = "status"


----------------------------------------------------------------------------
(* What run() returns, with every task of its errgroup                     *)

\* every task run() spawned has returned
TasksFinished ==
    /\ discovery # "pending"
    /\ \A v \in vehicles : pc[v] = "done"
    /\ stats.pc = "done"
    /\ \A p \in DOMAIN pollers : pollers[p].pc = "done"
    /\ listener # "serving"
    /\ shutdown = "done"

\* the errors tasks return because ctx is cancelled or the listener shut down
LateErrors == {"context canceled", "ServerClosed"}

\* a task fails in this step, of its own, with the error err
FailsWith(err) ==
    \/ discovery = "pending" /\ discovery' = "failed" /\ err = "Vehicles"
    \/ listener = "serving" /\ listener' = "failed" /\ err = "ListenAndServe"
    \/ \E v \in vehicles :
          pc[v] # "done" /\ pc'[v] = "done" /\ result'[v] = err

\* C32: run() returns only once every task it spawned has returned, it never
\* returns nil, and it returns the error of the task that failed first, the
\* one whose failure cancelled the context: the errors tasks return later
\* (the listener's server-closed error, the cancellation error of
\* sysmetrics.Monitor) never replace it.
C32_RunReturnsFirstFailure ==
    [][/\ firstErr # "nil" => firstErr' = firstErr
       /\ ~cancelled /\ cancelled'
             => firstErr = "nil" /\ firstErr' # "nil" /\ FailsWith(firstErr')
       /\ firstErr = "nil" /\ firstErr' # "nil" => ~cancelled /\ cancelled'
       /\ \A p \in DOMAIN pollers :
             pollers[p].pc # "done" /\ pollers'[p].pc = "done"
                 => /\ cancelled
                    /\ pollers'[p].result = CancelResult(p)
                    /\ firstErr' = firstErr
       /\ listener = "serving" /\ listener' = "closed"
             => cancelled /\ firstErr' = firstErr
       /\ runResult = "running" /\ runResult' # "running"
             => /\ TasksFinished
                /\ runResult' = firstErr
                /\ runResult' \notin {"nil"} \cup LateErrors]_vars

\* run() returned the failure of the discovery after the listener returned
\* its server-closed error and sysmetrics.Monitor its cancellation error
C32_Witness ==
    /\ runResult = "Vehicles"
    /\ listener = "closed"
    /\ "sysmetrics" \in DOMAIN pollers
    /\ pollers["sysmetrics"].result = "context canceled"
    /\ pollers["carserver"].result = "nil"


----------------------------------------------------------------------------
(* The statistics loop: a listing that failed, and the latest session      *)

LatestKeys ==
    {"chargepoint:latest:total_amount", "chargepoint:latest:miles_added",
     "chargepoint:latest:energy_kwh", "chargepoint:latest:power_kw",
     "chargepoint:latest:latitude", "chargepoint:latest:longitude"}

TotalKeys ==
    {"chargepoint:total_amount", "chargepoint:miles_added",
     "chargepoint:energy_kwh"}

\* the statistics loop passes from its calls to its select in this step
PassEnds == stats.pc = "poll" /\ stats'.pc # "poll"

\* C33: a pass of the statistics loop whose GetSessions call failed logs the
\* error, leaves every chargepoint:latest:* gauge as it was (none created,
\* none changed), sets the three totals to 0, calls no stopCharging and goes
\* on to its wait; the loop returns only from its wait, ctx cancelled.
C33_FailedListingGoesOn ==
    [][/\ PassEnds => stats'.pc = "wait" /\ stats'.result = "running"
       /\ PassEnds /\ output'.logged # "nil"
             => /\ output'.sessions = <<>>
                /\ ~output'.stop
                /\ stats'.logged = "nil"
                /\ \A k \in LatestKeys :
                      /\ k \in DOMAIN gauges' <=> k \in DOMAIN gauges
                      /\ k \in DOMAIN gauges => gauges'[k] = gauges[k]
                /\ \A k \in TotalKeys :
                      k \in DOMAIN gauges' /\ gauges'[k] = 0
                /\ cancelled' = cancelled
                /\ firstErr' = firstErr
       /\ stats.pc # "done" /\ stats'.pc = "done"
             => stats.pc = "wait" /\ cancelled]_vars

\* ctx not cancelled, a pass whose listing failed waits with the latest
\* gauges of an earlier pass and the totals at 0
C33_Witness ==
    /\ output # <<>>
    /\ output.logged = "GetSessions"
    /\ stats.pc = "wait"
    /\ ~cancelled
    /\ "chargepoint:latest:total_amount" \in DOMAIN gauges
    /\ gauges["chargepoint:latest:total_amount"] = 5
    /\ gauges["chargepoint:total_amount"] = 0

\* the number of times x occurs in seq
Occurrences(seq, x) == Cardinality({i \in DOMAIN seq : seq[i] = x})

\* the gauges chargepoint:latest:* hold the values of session
Describes(session) ==
    /\ LatestKeys \subseteq DOMAIN gauges
    /\ gauges["chargepoint:latest:total_amount"] = session.TotalAmount
    /\ gauges["chargepoint:latest:miles_added"] = session.MilesAdded
    /\ gauges["chargepoint:latest:energy_kwh"] = session.EnergyKwh
    /\ gauges["chargepoint:latest:power_kw"] = session.PowerKw
    /\ gauges["chargepoint:latest:latitude"] = session.Lat
    /\ gauges["chargepoint:latest:longitude"] = session.Lon

\* the sessions of the months of the last response that started latest
LatestListed ==
    LET listed == flatten(output.months)
    IN  {listed[i] : i \in {i \in DOMAIN listed :
                               \A j \in DOMAIN listed :
                                   listed[j].StartTime <= listed[i].StartTime}}

\* C34: the sessions GetSessions returned are those of all the months of the
\* response, each as often as listed, in non-decreasing order of StartTime;
\* when there are any the chargepoint:latest:* gauges hold the values of the
\* last one returned, whose StartTime is the greatest of all listed; and the
\* pass calls stopCharging only if that session is fully charged.
C34_LatestSessionIsLast ==
    output # <<>> /\ output.logged = "nil"
        => LET ss == output.sessions
               listed == flatten(output.months)
           IN  /\ Len(ss) = Len(listed)
               /\ \A s \in MonthSessions :
                     Occurrences(ss, s) = Occurrences(listed, s)
               /\ \A i, j \in DOMAIN ss :
                     i <= j => ss[i].StartTime <= ss[j].StartTime
               /\ ss # <<>>
                     => /\ ss[Len(ss)] \in LatestListed
                        /\ Describes(ss[Len(ss)])
               /\ output.stop
                     => /\ ss # <<>>
                        /\ Describes(ss[Len(ss)])
                        /\ ss[Len(ss)].CurrentCharging = ChargingFullyCharged

\* the months were answered latest first and unsorted, two sessions started
\* together; the gauges describe the fully charged one and the pass stopped
C34_Witness ==
    /\ output # <<>>
    /\ output.logged = "nil"
    /\ output.months =
          <<<<ChargingSession(2, ChargingDone, 1), ChargingSession(1, ChargingDone, 4)>>,
            <<ChargingSession(2, ChargingFullyCharged, 5)>>>>
    /\ output.stop
    /\ Describes(ChargingSession(2, ChargingFullyCharged, 5))


\* C35: a pass of a background poller (the car-server loop, the monitors of
\* sysmetrics.Monitor) that fails is logged and goes on to the wait of its
\* loop: it returns nothing, cancels nothing and leaves the errgroup's error
\* alone. A poller returns only from its wait, with ctx cancelled.
C35_PollerFailuresOnlyLogged ==
    [][\A p \in DOMAIN pollers :
          /\ pollers[p].pc = "poll" /\ pollers'[p] # pollers[p]
                => /\ pollers'[p].pc = "wait"
                   /\ pollers'[p].result = "running"
                   /\ pollers'[p].logged \subseteq
                         IF p = "sysmetrics" THEN SensorMonitors
                                             ELSE CarServerErrors
                   /\ cancelled' = cancelled
                   /\ firstErr' = firstErr
                   /\ runResult' = "running"
          /\ pollers[p].pc # "done" /\ pollers'[p].pc = "done"
                => pollers[p].pc = "wait" /\ cancelled]_vars

\* both pollers wait after a pass that logged failures, every monitor of
\* sysmetrics failing, and nothing is cancelled
C35_Witness ==
    /\ "sysmetrics" \in DOMAIN pollers
    /\ pollers["sysmetrics"].pc = "wait"
    /\ pollers["sysmetrics"].logged = SensorMonitors
    /\ pollers["carserver"].pc = "wait"
    /\ pollers["carserver"].logged = {"Status"}
    /\ ~cancelled
    /\ firstErr = "nil"


----------------------------------------------------------------------------
(* can.Frame: the 8 data bytes as a 64-bit word, and the bits read of it.  *)
(* A 64-bit word is the function of its bits, bit 0 the least significant. *)

WordBits == 64
ByteBits == 8

\* 2^k, for the bits of one byte
RECURSIVE Pow2(_)
Pow2(k) == IF k = 0 THEN 1 ELSE 2 * Pow2(k - 1)

\* bit k of the byte b
ByteBit(b, k) == (b \div Pow2(k)) % 2

\* the bytes read most significant first: a mutation of Uint64
Uint64BigEndian(Data) ==
    [k \in 0..(WordBits - 1) |->
        ByteBit(Data[ByteBits - (k \div ByteBits)], k % ByteBits)]

\* binary.Read(r, binary.LittleEndian, &v): byte i of Data holds the bits
\* 8i .. 8i+7 of v
Uint64(Data) ==
    [k \in 0..(WordBits - 1) |->
        ByteBit(Data[(k \div ByteBits) + 1], k % ByteBits)]

\* b << s on a uint64, for 0 <= s < 64: the bits shifted out are lost
ShiftLeft(b, s) ==
    [k \in 0..(WordBits - 1) |-> IF k >= s THEN b[k - s] ELSE 0]

\* b >> s on a uint64, for 0 <= s < 64: zeros are shifted in
ShiftRight(b, s) ==
    [k \in 0..(WordBits - 1) |-> IF k + s < WordBits THEN b[k + s] ELSE 0]

\* the word shifted right only: a mutation of ReadBits
ReadBitsUnmasked(Data, n, start) == ShiftRight(Uint64(Data), start)

\* int64((b << (64 - n - start)) >> (64 - n)): the bits of the int64
\* returned, bit 63 its sign
ReadBits(Data, n, start) ==
    ShiftRight(ShiftLeft(Uint64(Data), WordBits - n - start), WordBits - n)

\* the data of the frames read
FrameData ==
    {<<0, 0, 0, 0, 0, 0, 0, 0>>,
     <<255, 255, 255, 255, 255, 255, 255, 255>>,
     <<1, 0, 0, 0, 0, 0, 0, 0>>,
     <<0, 0, 0, 0, 0, 0, 0, 128>>,
     <<1, 2, 4, 8, 16, 32, 64, 128>>,
     <<170, 85, 170, 85, 170, 85, 170, 85>>,
     <<18, 52, 86, 120, 154, 188, 222, 240>>,
     <<18, 52, 86, 120, 154, 188, 222, 112>>,
     <<19, 52, 86, 120, 154, 188, 222, 240>>,
     <<0, 0, 128, 0, 0, 0, 0, 0>>}

\* the calls ReadBits(n, start) with n >= 1, start >= 0, n + start <= 64
BitFields ==
    {f \in [n : 1..WordBits, start : 0..(WordBits - 1)] :
        f.n + f.start <= WordBits}

InitBits ==
    /\ input \in [Data : FrameData, field : BitFields]
    /\ output = <<>>
    /\ phase = "input"
    /\ RegistryIdle

\* cf.ReadBits(n, start)
ReadField ==
    /\ phase = "input"
    /\ output' = <<ReadBits(input.Data, input.field.n, input.field.start)>>
    /\ phase' = "read"
    /\ UNCHANGED <<gauges, registered, calls, gauges0, prefix, count, input>>
    /\ UNCHANGED <<regVars, loopVars, histVars>>

NextBits == ReadField

SpecBits == InitBits /\ [][NextBits]_vars

\* the word (v >> start) mod 2^n, written of the bits of Data one by one:
\* bit k of byte i is bit 8i + k of v
FieldWord(Data, n, start) ==
    [k \in 0..(WordBits - 1) |->
        IF k < n
        THEN (Data[((start + k) \div ByteBits) + 1]
                 \div Pow2((start + k) % ByteBits)) % 2
        ELSE 0]

\* Data and other have the same bits at the positions start .. start+n-1
SameField(Data, other, n, start) ==
    \A k \in start..(start + n - 1) :
        ByteBit(Data[(k \div ByteBits) + 1], k % ByteBits)
            = ByteBit(other[(k \div ByteBits) + 1], k % ByteBits)

\* C39: for n >= 1, start >= 0, n + start <= 64 the word ReadBits returns is
\* (v >> start) mod 2^n, v the little-endian reading of the 8 data bytes; for
\* n < 64 its bits from n up, the sign bit among them, are 0, so that the
\* int64 lies in [0, 2^n); and frames that agree on the bits start ..
\* start+n-1 give the same result.
C39_ReadBitsIsTheField ==
    phase = "read"
        => LET r == output[1]
               n == input.field.n
               start == input.field.start
           IN  /\ r = FieldWord(input.Data, n, start)
               /\ n < WordBits => \A k \in n..(WordBits - 1) : r[k] = 0
               /\ \A other \in FrameData :
                     SameField(input.Data, other, n, start)
                         => ReadBits(other, n, start) = r

\* the gear field (3 bits from bit 21) read of a frame with bits set below,
\* inside and above it
C39_Witness ==
    /\ phase = "read"
    /\ input.Data = <<18, 52, 86, 120, 154, 188, 222, 240>>
    /\ input.field = [n |-> 3, start |-> 21]
    /\ output[1][0] = 0 /\ output[1][1] = 1 /\ output[1][2] = 0
    /\ \A k \in 3..63 : output[1][k] = 0


----------------------------------------------------------------------------
(* The CAN exporter: the loop of run around processCan, the log file, the  *)
(* gauges. A decoded value is a whole number of thousandths.               *)

\* Most frames read in one behaviour.
MaxFrames == 3

\* units.GB, in bytes
GB == 1000000000

\* can.GearKey, can.GearReverse, can.GearDrive
GearKey == "gear"
GearReverse == 2
GearDrive == 4

RECURSIVE BitsValue(_, _)
\* the number the low n bits of a word are
BitsValue(w, n) ==
    IF n = 0 THEN 0 ELSE BitsValue(w, n - 1) + w[n - 1] * Pow2(n - 1)

\* float64(cf.ReadBits(n, start))*scale + offset, with offset and scale
\* given in thousandths
ReadFloat(Data, n, start, offset, scale) ==
    BitsValue(ReadBits(Data, n, start), n) * scale + offset

Frame(id, bytes) == [ID |-> id, Data |-> bytes]

\* FrameToKV, for the frames 0x118 and 0x3D8 and those of no case
FrameToKV(frame) ==
    CASE frame.ID = 280 ->
           ("drive_state" :> ReadFloat(frame.Data, 3, 16, 0, 1000)) @@
           ("brake_pedal" :> ReadFloat(frame.Data, 2, 19, 0, 1000)) @@
           ("gear" :> ReadFloat(frame.Data, 3, 21, 0, 1000)) @@
           ("brake_hold" :> ReadFloat(frame.Data, 1, 26, 0, 1000)) @@
           ("immobilizer" :> ReadFloat(frame.Data, 3, 27, 0, 1000)) @@
           ("pedal_position_pct" :> ReadFloat(frame.Data, 8, 32, 0, 400)) @@
           ("traction_control" :> ReadFloat(frame.Data, 3, 40, 0, 1000)) @@
           ("parking_brake" :> ReadFloat(frame.Data, 2, 44, 0, 1000)) @@
           ("track_mode" :> ReadFloat(frame.Data, 2, 48, 0, 1000))
      [] frame.ID = 984 ->
           ("elevation_meter" :> ReadFloat(frame.Data, 16, 0, 0, 1000))
      [] OTHER -> <<>>

\* the frame 0x118 of the gear g, nothing else set
GearFrame(g) == Frame(280, <<0, 0, 32 * g, 0, 0, 0, 0, 0>>)

\* the frames of the stream: the gears Park, Reverse and Drive, an
\* elevation, a frame FrameToKV has no case for
CanFrames ==
    {GearFrame(1), GearFrame(GearReverse), GearFrame(GearDrive),
     Frame(984, <<57, 5, 0, 0, 0, 0, 0, 0>>),
     Frame(1, <<255, 255, 255, 255, 255, 255, 255, 255>>)}

\* len(body) of a record marshalled
RecordLengths == {96, 104}

\* the bytes of a body a failed f.Write left in the file
PartialBytes == 10

\* set(name, val): the gauge canbus:<name>, created on its first value
set(reg, name, val) ==
    LET key == "canbus:" \o name
    IN  GaugeSet(IF GaugeLookup(reg, key) THEN reg ELSE NewGauge(reg, key),
                 key, val)

RECURSIVE setAll(_, _, _)
\* for key, value := range kv { set(key, value) }
setAll(reg, kv, keys) ==
    IF keys = {} THEN reg
    ELSE LET key == CHOOSE k \in keys : TRUE
         IN  setAll(set(reg, key, kv[key]), kv, keys \ {key})

\* logging on the Drive gear alone: a mutation of GearLogging
GearLoggingDriveOnly(kv, logging) ==
    IF GearKey \in DOMAIN kv
    THEN kv[GearKey] = 1000 * GearDrive
    ELSE logging

\* if key == can.GearKey { logging = value == can.GearDrive ||
\* value == can.GearReverse }, over the keys of kv
GearLogging(kv, logging) ==
    IF GearKey \in DOMAIN kv
    THEN kv[GearKey] = 1000 * GearDrive \/ kv[GearKey] = 1000 * GearReverse
    ELSE logging

\* the file truncated only above 1 GB: a mutation of Truncates
TruncatesAbove(logged) == logged > GB

\* if logged >= 1*units.GB
Truncates(logged) == logged >= GB

\* the CAN exporter: where its loop is, processCan's logging and logged,
\* the size of the log file, and for the call of processCan in progress the
\* frames read, the frame read last, the frames whose record was written,
\* the error logged last, what the task returned
CanState(at, logging, logged, size) ==
    [pc |-> at, logging |-> logging, logged |-> logged, size |-> size,
     reads |-> 0, frame |-> <<>>, log |-> <<>>, err |-> "nil",
     result |-> "running"]

\* processCan returned err: run logs it and goes to its select
Returned(c, err) == [c EXCEPT !.pc = "wait", !.err = err]

\* the log file opened without O_TRUNC: a mutation of Opened
OpenedAppending(c) ==
    [c EXCEPT !.pc = "loop", !.logging = FALSE, !.logged = 0,
              !.log = <<>>, !.err = "nil"]

\* os.OpenFile(*logFile, O_CREATE|O_TRUNC|O_WRONLY); logging := false;
\* var logged units.MetricBytes
Opened(c) ==
    [c EXCEPT !.pc = "loop", !.logging = FALSE, !.logged = 0, !.size = 0,
              !.log = <<>>, !.err = "nil"]

\* the failures of processCan before its loop
StreamErrors == {"NewRequest", "Do", "OpenFile"}

\* the failures of an iteration once the frame is parsed: of the write of
\* the body, of the write of the newline, of f.Seek, of f.Truncate
Faults == {"none", "body", "newline", "Seek", "Truncate"}

\* the record of the frame written: write(body), write("\n")
writeRecord(c, frame, len, fault) ==
    IF fault = "body"
    THEN Returned([c EXCEPT !.size = @ + PartialBytes], "Write")
    ELSE LET body == [c EXCEPT !.size = @ + len, !.logged = @ + len,
                               !.log = Append(@, frame)]
         IN  IF fault = "newline"
             THEN Returned(body, "Write")
             ELSE [body EXCEPT !.size = @ + 1, !.logged = @ + 1]

\* if logged >= 1*units.GB { f.Seek(0, 0); f.Truncate(0); logged = 0 }
Truncated(c, fault) ==
    IF c.pc = "loop" /\ Truncates(c.logged)
    THEN IF fault \in {"Seek", "Truncate"}
         THEN Returned(c, fault)
         ELSE [c EXCEPT !.size = 0, !.logged = 0]
    ELSE c

\* one iteration of processCan's loop on a frame parsed, its record of
\* length len: the values set, the flag, the record written, the file
\* truncated
Iteration(c, frame, len, fault) ==
    LET logging == GearLogging(FrameToKV(frame), c.logging)
        read == [c EXCEPT !.logging = logging, !.reads = @ + 1,
                          !.frame = frame]
    IN  Truncated(IF logging THEN writeRecord(read, frame, len, fault) ELSE read,
                  fault)

\* the fault is one the iteration meets
Meets(c, frame, len, fault) ==
    LET logging == GearLogging(FrameToKV(frame), c.logging)
    IN  /\ fault \in {"body", "newline"} => logging
        /\ fault \in {"Seek", "Truncate"}
              => Truncates(c.logged + IF logging THEN len + 1 ELSE 0)

\* the sizes of a log file about to reach 1 GB
FullSizes == {GB - 97, GB - 98, GB - 105}

\* the exporter at its start, the log file of an earlier run there or not,
\* or in processCan's loop with the log file nearly full
CanStarts ==
    {CanState("call", FALSE, 0, size) : size \in {0, 500}} \cup
    {CanState("loop", logging, size, size) :
        logging \in BOOLEAN, size \in FullSizes}

InitCan ==
    /\ can \in CanStarts
    /\ vehicles = {}
    /\ pc = <<>>
    /\ data = <<>>
    /\ prevData = <<>>
    /\ delay = <<>>
    /\ result = <<>>
    /\ charging = FALSE
    /\ cancelled = FALSE
    /\ firstErr = "nil"
    /\ listener = "serving"
    /\ env = <<>>
    /\ discovery = "none"
    /\ runResult = "running"
    /\ stats = <<>>
    /\ pollers = <<>>
    /\ shutdown = "waiting"
    /\ polls = <<>>
    /\ portHist = <<>>
    /\ qualCount = <<>>
    /\ statusCount = <<>>
    /\ stops = <<>>
    /\ startLog = <<>>
    /\ sessions = <<>>
    /\ errs = <<>>
    /\ gauges = <<>>
    /\ registered = <<>>
    /\ calls = <<>>
    /\ gauges0 = <<>>
    /\ input = Nil
    /\ prefix = "canbus"
    /\ count = 0
    /\ output = <<>>
    /\ phase = "run"
    /\ mu = 0
    /\ rpc = <<>>
    /\ args = <<>>
    /\ found = <<>>
    /\ everSet = {}

\* processCan up to its loop: the request, the log file opened and truncated
CanCall ==
    /\ can.pc = "call"
    /\ \/ \E err \in IF cancelled THEN {"Do"} ELSE StreamErrors :
            can' = Returned(can, err)
       \/ /\ ~cancelled
          /\ can' = Opened(can)
    /\ UNCHANGED <<vehicles, pc, data, prevData, delay, result, charging,
                   cancelled, firstErr, listener, env, discovery, runResult,
                   stats, pollers, shutdown, histVars>>
    /\ UNCHANGED <<gauges, registered, calls, gauges0, normVars, regVars>>

\* one iteration of processCan's loop: reader.Read or can.ParseCSV fails, or
\* the frame is handled
ReadFrame ==
    /\ can.pc = "loop"
    /\ \/ /\ \E err \in {"Read", "ParseCSV"} : can' = Returned(can, err)
          /\ UNCHANGED <<gauges, registered>>
       \/ /\ can.reads < MaxFrames
          /\ \E frame \in CanFrames, len \in RecordLengths, fault \in Faults :
               LET kv == FrameToKV(frame)
                   reg == setAll(Registry(gauges, registered, <<>>), kv,
                                 DOMAIN kv)
               IN  /\ Meets(can, frame, len, fault)
                   /\ can' = Iteration(can, frame, len, fault)
                   /\ gauges' = reg.gauges
                   /\ registered' = reg.registered
    /\ UNCHANGED <<vehicles, pc, data, prevData, delay, result, charging,
                   cancelled, firstErr, listener, env, discovery, runResult,
                   stats, pollers, shutdown, histVars>>
    /\ UNCHANGED <<calls, gauges0, normVars, regVars>>

\* run's select: case <-time.NewTimer(10 * time.Second).C
CanTimer ==
    /\ can.pc = "wait"
    /\ can' = [can EXCEPT !.pc = "call"]
    /\ UNCHANGED <<vehicles, pc, data, prevData, delay, result, charging,
                   cancelled, firstErr, listener, env, discovery, runResult,
                   stats, pollers, shutdown, histVars>>
    /\ UNCHANGED <<gauges, registered, calls, gauges0, normVars, regVars>>

\* run's select: case <-ctx.Done(): return ctx.Err()
CanCancelled ==
    /\ can.pc = "wait"
    /\ cancelled
    /\ can' = [can EXCEPT !.pc = "done", !.result = "context canceled"]
    /\ TaskReturns("context canceled")
    /\ UNCHANGED <<vehicles, pc, data, prevData, delay, result, charging,
                   listener, env, discovery, runResult, stats, pollers,
                   shutdown, histVars>>
    /\ UNCHANGED <<gauges, registered, calls, gauges0, normVars, regVars>>

NextCan ==
    \/ CanCall
    \/ ReadFrame
    \/ CanTimer
    \/ CanCancelled
    \/ ListenerFails

SpecCan == InitCan /\ [][NextCan]_vars


\* the frame carries the gear key; its gear, read of the byte that holds
\* the bits 21..23
CarriesGear(frame) == frame.ID = 280
GearOf(frame) == (frame.Data[3] \div 32) % 8

\* processCan's loop handles a frame in this step
FrameHandled == can.pc = "loop" /\ can'.reads = can.reads + 1

\* C36: in processCan's loop the logging flag changes only on a frame that
\* carries the gear key, to true iff its gear is Drive or Reverse, and
\* otherwise stays; the record of a frame is written iff the flag is true
\* once the values of that frame are applied, so the frame that switches
\* into Drive or Reverse is logged and the frame that switches out is not.
\* An iteration ended by a failed write or a failed truncation has written
\* the record or not, and never with the flag false.
C36_LoggingFollowsGear ==
    [][/\ FrameHandled
             => /\ can'.logging =
                      IF CarriesGear(can'.frame)
                      THEN GearOf(can'.frame) \in {GearDrive, GearReverse}
                      ELSE can.logging
                /\ can'.pc = "loop"
                      => can'.log = IF can'.logging
                                    THEN Append(can.log, can'.frame)
                                    ELSE can.log
                /\ can'.pc # "loop"
                      => \/ can'.log = can.log
                         \/ /\ can'.logging
                            /\ can'.log = Append(can.log, can'.frame)
       /\ can.pc = "loop" /\ ~FrameHandled
             => can'.logging = can.logging /\ can'.log = can.log]_vars

\* Drive, an elevation and Park were read in that order: the first two are
\* in the log, Park is not, and logging is off
C36_Witness ==
    /\ can # <<>>
    /\ can.pc = "loop"
    /\ can.reads = 3
    /\ can.log = <<GearFrame(GearDrive), Frame(984, <<57, 5, 0, 0, 0, 0, 0, 0>>)>>
    /\ can.frame = GearFrame(1)
    /\ ~can.logging

FailuresGoOn ==
    /\ can.pc \in {"call", "loop"} /\ can'.pc \notin {"call", "loop"}
          => /\ can'.pc = "wait"
             /\ can'.err # "nil"
             /\ can'.result = "running"
             /\ cancelled' = cancelled
             /\ firstErr' = firstErr
    /\ can.pc = "wait" /\ can'.pc # "wait"
          => \/ can'.pc = "call"
             \/ /\ can'.pc = "done"
                /\ cancelled
                /\ can'.result = "context canceled"
    /\ can.pc = "call" /\ can'.pc = "loop"
          => can'.size = 0 /\ can'.logged = 0 /\ ~can'.logging

\* C38 as stated: every call of processCan truncates the log file.
C38_EveryCallTruncates ==
    [][can # <<>>
          => /\ FailuresGoOn
             /\ can.pc = "call" /\ can'.pc # "call" => can'.size = 0]_vars

\* C38, amended: a call of processCan that fails before it opens the log
\* file (the request, the open) leaves the file as it was; the calls that
\* reach the loop have truncated it and start with logging off.
C38_CallsThatOpenTruncate ==
    [][can # <<>>
          => /\ FailuresGoOn
             /\ can.pc = "call" /\ can'.pc = "wait"
                   => can'.err \in StreamErrors /\ can'.size = can.size]_vars

\* the stream ended with records in the log; the next call of processCan
\* failed at its request and the records are still in the file
C38_Witness ==
    /\ can # <<>>
    /\ can.pc = "wait"
    /\ can.err = "Do"
    /\ can.log # <<>>
    /\ can.size > 0
    /\ can.size < 500

====
